---- MODULE Spec2Model ----
(***************************************************************************)
(* A model of the webcrawler package: the WebCrawler constructor and its   *)
(* configuration validation, the breadth-first crawl loop (frontier,       *)
(* visited set, result log, page budget, consecutive-failure abort,        *)
(* interruption), the per-page fetch (robots gate, session rotation,       *)
(* response classification) and the URL validator / normalizer that the    *)
(* link extractor applies to every discovered link.                        *)
(*                                                                         *)
(* A URL string is modelled as a record [scheme, netloc, rest] where rest  *)
(* is the sequence of tokens that follows "scheme://netloc".  A token is   *)
(* an atomic piece of text: "/", "?", "#", a name, or an extension such    *)
(* as ".pdf".  Two strings are equal iff their records are equal.          *)
(***************************************************************************)
EXTENDS Integers, Sequences, FiniteSets, TLC

VARIABLES
    pc,                   \* position of the caller / of crawl()
    raised,               \* exception class that reached the caller, or "none"
    attrs,                \* names of the attributes assigned on the instance
    config,               \* constructor arguments as stored on the instance
    url_queue,            \* self.url_queue: sequence of <<url, depth>>
    visited_urls,         \* self.visited_urls
    crawled_data,         \* self.crawled_data: sequence of page_data records
    pages_crawled,        \* local of crawl()
    consecutive_failures, \* local of crawl()
    current,              \* (current_url, depth) of the iteration in progress
    page_data,            \* page_data of the crawl_page call in progress
    robots_cache,         \* self.robots_cache: domain -> parser or None
    request_count,        \* self._request_count
    session_id,           \* self._session_id
    sessions,             \* SessionManager._sessions: identifiers of open handles
    base_delay,           \* DelayManager.base_delay as <<numerator, denominator>>
    wait_calls,           \* DelayManager._request_count
    get_log,              \* transport: URLs for which session.get was called
    proxy_log,            \* transport: the proxy of each session.get call
    session_log,          \* the session identifier each crawl_page call obtained
    depth_log,            \* history: depth of the entry behind crawled_data[i]
    dequeues,             \* history: number of popleft() calls of this run
    enqueued,             \* history: the entries put in the queue, in order
    interrupted,          \* history: a KeyboardInterrupt reached crawl()
    calls,                \* history: len(crawled_data) at the start of each crawl()
    proxy_rotator,        \* a ProxyRotator: pool, place in the cycle, failed keys
    rotator_call,         \* history: the last call on the rotator and its result
    delay_manager,        \* a DelayManager used on its own
    now,                  \* time.time(), in ticks
    wait_call,            \* history: what the last DelayManager.wait computed
    validator_call,       \* history: the last URLValidator call and its result
    user_agent_rotator,   \* a UserAgentRotator: the list and its cycle iterator
    agent_call,           \* history: the last call on the UserAgentRotator
    robots_call           \* history: the last RobotsTxtParser query and its result

proxy_vars == <<proxy_rotator, rotator_call>>
delay_vars == <<delay_manager, now, wait_call>>
agent_vars == <<user_agent_rotator, agent_call>>
utility_vars == <<validator_call, agent_vars, robots_call>>
component_vars == <<proxy_vars, delay_vars, utility_vars>>

crawler_vars == <<pc, raised, attrs, config, url_queue, visited_urls, crawled_data,
                  pages_crawled, consecutive_failures, current, page_data,
                  robots_cache, request_count, session_id, sessions, base_delay,
                  wait_calls, get_log, proxy_log, session_log, depth_log, dequeues,
                  enqueued, interrupted, calls>>

vars == <<crawler_vars, component_vars>>

---------------------------------------------------------------------------
(* Bounds of the model.                                                    *)

MaxDepthBound == 2
MaxPagesBound == 4
HubLinks == 12

---------------------------------------------------------------------------
(* URL strings.                                                            *)

Url(s, n, r) == [scheme |-> s, netloc |-> n, rest |-> r]

EmptyString == Url("", "", <<>>)

Last(s) == s[Len(s)]

IndexOf(s, t) ==
    IF \E i \in 1..Len(s) : s[i] = t
    THEN CHOOSE i \in 1..Len(s) : s[i] = t /\ \A j \in 1..(i - 1) : s[j] # t
    ELSE 0

BeforeTok(s, t) == IF IndexOf(s, t) = 0 THEN s ELSE SubSeq(s, 1, IndexOf(s, t) - 1)

AfterTok(s, t) == IF IndexOf(s, t) = 0 THEN <<>> ELSE SubSeq(s, IndexOf(s, t) + 1, Len(s))

\* urlparse: the fragment is split off at the first "#", then the query at
\* the first "?" of what is left.
Fragment(u) == AfterTok(u.rest, "#")
Query(u) == AfterTok(BeforeTok(u.rest, "#"), "?")
Path(u) == BeforeTok(BeforeTok(u.rest, "#"), "?")

\* Number of characters of a token sequence, exact up to "more than one":
\* the delimiters and the one-letter names are one character long, every
\* other token is longer.
TokLen(t) == IF t \in {"/", "?", "#", "a", "b", "c"} THEN 1 ELSE 2

RECURSIVE CharLen(_)
CharLen(s) == IF s = <<>> THEN 0 ELSE TokLen(Head(s)) + CharLen(Tail(s))

\* The directory part of a base path: everything up to and including the
\* last "/" ("/" when the base path is empty).
RECURSIVE BaseDir(_)
BaseDir(p) ==
    IF p = <<>> THEN <<"/">>
    ELSE IF Last(p) = "/" THEN p
    ELSE BaseDir(SubSeq(p, 1, Len(p) - 1))

QueryPart(q) == IF q # <<>> THEN <<"?">> \o q ELSE <<>>
FragmentPart(f) == IF f # <<>> THEN <<"#">> \o f ELSE <<>>

urljoin(base, url) ==
    IF url.scheme # "" /\ url.scheme # base.scheme THEN url
    ELSE IF url.netloc # "" THEN Url(base.scheme, url.netloc, url.rest)
    ELSE IF Path(url) = <<>>
         THEN Url(base.scheme, base.netloc,
                  Path(base)
                  \o QueryPart(IF Query(url) # <<>> THEN Query(url) ELSE Query(base))
                  \o FragmentPart(Fragment(url)))
    ELSE IF Head(Path(url)) = "/" THEN Url(base.scheme, base.netloc, url.rest)
    ELSE Url(base.scheme, base.netloc, BaseDir(Path(base)) \o url.rest)

normalize_url(url, base_url) ==
    LET absolute_url == urljoin(base_url, url)
        normalized == Path(absolute_url) \o QueryPart(Query(absolute_url))
    IN  IF normalized # <<>> /\ Last(normalized) = "/"
           /\ CharLen(Path(absolute_url)) > 1
        THEN Url(absolute_url.scheme, absolute_url.netloc,
                 SubSeq(normalized, 1, Len(normalized) - 1))
        ELSE Url(absolute_url.scheme, absolute_url.netloc, normalized)

SKIP_EXTENSIONS ==
    {".pdf", ".jpg", ".jpeg", ".png", ".gif", ".svg", ".ico",
     ".zip", ".rar", ".7z", ".tar", ".gz",
     ".exe", ".msi", ".dmg", ".deb", ".rpm",
     ".doc", ".docx", ".xls", ".xlsx", ".ppt", ".pptx",
     ".mp3", ".mp4", ".avi", ".mov", ".wmv", ".flv",
     ".css", ".js", ".json", ".xml", ".rss"}

VALID_SCHEMES == {"http", "https"}

\* str.lower() of a token; every token of the model that has an upper-case
\* letter is listed.
Lower(t) ==
    CASE t = ".PDF" -> ".pdf"
      [] t \in {"User-agent", "User-Agent"} -> "user-agent"
      [] t \in {"Disallow", "DISALLOW"} -> "disallow"
      [] t = "Allow" -> "allow"
      [] t \in {"WebBot", "WEBBOT"} -> "webbot"
      [] OTHER -> t

LowerAll(s) == [i \in 1..Len(s) |-> Lower(s[i])]

\* The whole string as tokens, as re.search sees it.
FullString(u) ==
    (IF u.scheme # "" THEN <<u.scheme, ":", "/", "/">> ELSE <<>>)
    \o (IF u.netloc # "" THEN <<u.netloc>> ELSE <<>>) \o u.rest

Contains(s, pat) ==
    \E i \in 1..(Len(s) - Len(pat) + 1) : SubSeq(s, i, i + Len(pat) - 1) = pat

skip_patterns ==
    {<<"/", "admin", "/">>, <<"/", "login">>, <<"/", "logout">>,
     <<"/", "register">>, <<"/", "api", "/">>}

skip_suffixes == {".php", ".asp", ".jsp"}

is_valid_url(url, allowed_domains) ==
    /\ url.scheme # "" /\ url.netloc # ""
    /\ url.scheme \in VALID_SCHEMES
    /\ ~(allowed_domains # {} /\ url.netloc \notin allowed_domains)
    /\ ~(Path(url) # <<>> /\ Lower(Last(Path(url))) \in SKIP_EXTENSIONS)
    /\ ~(\E pat \in skip_patterns : Contains(FullString(url), pat))
    /\ ~(FullString(url) # <<>> /\ Last(FullString(url)) \in skip_suffixes)

\* Removes duplicates, keeping the first occurrence of each element.
RECURSIVE Unique(_, _)
Unique(s, seen) ==
    IF s = <<>> THEN <<>>
    ELSE IF Head(s) \in seen THEN Unique(Tail(s), seen)
    ELSE <<Head(s)>> \o Unique(Tail(s), seen \cup {Head(s)})

RECURSIVE ValidLinks(_, _, _)
ValidLinks(hrefs, base_url, allowed_domains) ==
    IF hrefs = <<>> THEN <<>>
    ELSE LET href == Head(hrefs)
             more == ValidLinks(Tail(hrefs), base_url, allowed_domains)
         IN  IF href = EmptyString \/ (href.scheme = "" /\ href.netloc = ""
                                       /\ href.rest # <<>> /\ Head(href.rest) = "#")
             THEN more
             ELSE IF is_valid_url(normalize_url(href, base_url), allowed_domains)
                  THEN <<normalize_url(href, base_url)>> \o more
                  ELSE more

extract_links(hrefs, base_url, allowed_domains) ==
    Unique(ValidLinks(hrefs, base_url, allowed_domains), {})

---------------------------------------------------------------------------
(* robots.txt.                                                             *)

NoneValue == "None"

IsPrefix(p, s) == Len(p) <= Len(s) /\ SubSeq(s, 1, Len(p)) = p

\* A stripped line of a robots.txt file: "directive: value" (the text on
\* either side of the first colon, value as tokens), a line that is empty
\* or starts with "#", or a line without a colon.
Line(directive, value) == [kind |-> "directive", directive |-> directive, value |-> value]
CommentLine == [kind |-> "comment", directive |-> "", value |-> <<>>]
TextLine == [kind |-> "text", directive |-> "", value |-> <<>>]

\* RobotsTxtParser._parse_robots_txt over the lines of a file; user_agent
\* is self.user_agent, st is [applies, disallowed].
RECURSIVE parse_robots_txt(_, _, _)
parse_robots_txt(lines, user_agent, st) ==
    IF lines = <<>> THEN st.disallowed
    ELSE LET line == Head(lines)
             directive == Lower(line.directive)
             current_user_agent == LowerAll(line.value)
         IN
         IF line.kind # "directive"
         THEN parse_robots_txt(Tail(lines), user_agent, st)
         ELSE IF directive = "user-agent"
         THEN parse_robots_txt(Tail(lines), user_agent,
                  [st EXCEPT !.applies = (current_user_agent = <<"*">>
                                          \/ current_user_agent = user_agent)])
         ELSE IF st.applies /\ directive = "disallow" /\ line.value # <<>>
         THEN parse_robots_txt(Tail(lines), user_agent,
                  [st EXCEPT !.disallowed = @ \cup {line.value}])
         ELSE parse_robots_txt(Tail(lines), user_agent, st)

\* RobotsTxtParser.__init__: self.user_agent = user_agent.lower(), then the
\* parse; gives self.disallowed_paths.
RobotsTxtParser(content, user_agent) ==
    parse_robots_txt(content, LowerAll(user_agent),
                     [applies |-> FALSE, disallowed |-> {}])

\* Mutation: a path is blocked only by a rule that spells it out in full.
can_crawl_exact(disallowed_paths, url_path) == url_path \notin disallowed_paths

\* RobotsTxtParser.can_crawl
can_crawl(disallowed_paths, url_path) ==
    ~(\E disallowed \in disallowed_paths : IsPrefix(disallowed, url_path))

\* The environment: the robots.txt every host serves (status 200).
SiteRobotsTxt ==
    << Line("User-agent", <<"*">>), Line("Disallow", <<"/", "a">>) >>

DefaultUserAgent == <<"webcrawler/0.0.1 (anti-detection)">>

\* A cache entry: a parser with its disallowed paths, or None.
Parser(disallowed_paths) == [present |-> TRUE, disallowed_paths |-> disallowed_paths]
NoParser == [present |-> FALSE, disallowed_paths |-> {}]

\* _get_robots_txt: the cached entry, else one lookup.  The lookup reads
\* self.session; when the instance has no such attribute the AttributeError
\* is swallowed by "except Exception" and None is cached.
get_robots_txt(domain, cache, instance_attrs) ==
    IF domain \in DOMAIN cache THEN [parser |-> cache[domain], cache |-> cache]
    ELSE LET parser == IF "session" \in instance_attrs
                       THEN Parser(RobotsTxtParser(SiteRobotsTxt, DefaultUserAgent))
                       ELSE NoParser
         IN  [parser |-> parser,
              cache |-> [d \in DOMAIN cache \cup {domain} |->
                            IF d = domain THEN parser ELSE cache[d]]]

\* _can_crawl_url, given the parser _get_robots_txt returned.
can_crawl_url(respect_robots_txt, parser, url) ==
    IF ~respect_robots_txt THEN TRUE
    ELSE IF parser.present THEN can_crawl(parser.disallowed_paths, Path(url))
    ELSE TRUE

---------------------------------------------------------------------------
(* The constructor.                                                        *)

valid_strategies == {"fixed", "random", "exponential", "adaptive"}

\* AntiDetectionConfig._validate_config
strategy_error(delay_strategy) ==
    IF delay_strategy \notin valid_strategies THEN "ValueError" ELSE "none"

\* WebCrawler._validate_config: the first failing check, in source order.
validate_config(c) ==
    IF c.seed_url = EmptyString THEN "ConfigurationError"
    ELSE IF c.max_depth < 0 THEN "ConfigurationError"
    ELSE IF c.delay < 0 THEN "ConfigurationError"
    ELSE IF c.max_pages <= 0 THEN "ConfigurationError"
    ELSE IF ~(c.seed_url.scheme \in {"http", "https"}) THEN "ConfigurationError"
    ELSE "none"

\* Attributes assigned on the instance, grouped by the point of __init__
\* that assigns them.
BasicAttrs ==
    {"seed_url", "max_depth", "delay", "max_pages", "same_domain_only",
     "respect_robots_txt", "user_agent", "timeout", "verify_ssl"}
ConfigAttrs == BasicAttrs \cup {"anti_detection_config"}
StorageAttrs ==
    ConfigAttrs \cup {"visited_urls", "crawled_data", "url_queue",
                      "base_domain", "url_validator", "link_extractor"}
RotatorAttrs == StorageAttrs \cup {"user_agent_rotator", "proxy_rotator"}
ComponentAttrs == RotatorAttrs \cup {"delay_manager", "session_manager"}
AllAttrs ==
    ComponentAttrs \cup {"robots_cache", "_request_count", "_session_id", "logger"}

\* AntiDetectionConfig(enable_proxy_rotation = ... and bool(proxy_list))
proxy_rotation_enabled(c) == c.enable_proxy_rotation /\ c.proxy_list # <<>>

\* _setup_anti_detection_components runs before _setup_logging: its proxy
\* branch reads self.logger, which the attributes assigned so far lack.
setup_components_error(c, assigned) ==
    IF proxy_rotation_enabled(c) /\ "logger" \notin assigned
    THEN "AttributeError" ELSE "none"

\* WebCrawler.__init__: the exception that leaves it (or "none") and the
\* attributes assigned by then.
init_outcome(c) ==
    IF strategy_error(c.delay_strategy) # "none"
    THEN [raised |-> strategy_error(c.delay_strategy), attrs |-> BasicAttrs]
    ELSE IF validate_config(c) # "none"
    THEN [raised |-> validate_config(c), attrs |-> ConfigAttrs]
    ELSE IF setup_components_error(c, RotatorAttrs) # "none"
    THEN [raised |-> setup_components_error(c, RotatorAttrs), attrs |-> RotatorAttrs]
    ELSE [raised |-> "none", attrs |-> AllAttrs]

\* AntiDetectionConfig.min_delay and .max_delay
min_delay_of(c) == IF c.min_delay < 0 THEN 0 ELSE c.min_delay
max_delay_of(c) == IF c.max_delay < min_delay_of(c) THEN min_delay_of(c) ELSE c.max_delay

\* AntiDetectionConfig.session_rotation_interval
rotation_interval(c) ==
    IF c.session_rotation_interval < 1 THEN 1 ELSE c.session_rotation_interval

\* Mutation: the allowlist is never set.
allowed_domains_none(c) == {}

\* URLValidator(allowed_domains): {base_domain} if same_domain_only else None
allowed_domains_of(c) == IF c.same_domain_only THEN {c.seed_url.netloc} ELSE {}

---------------------------------------------------------------------------
(* Inputs: constructor arguments and what the hosts answer.                *)

SeedPlain == Url("https", "h", <<>>)
SeedSlash == Url("https", "h", <<"/", "a", "/">>)
SeedHub == Url("https", "hub", <<>>)

SeedSite == Url("https", "s", <<>>)

ValidSeeds == {SeedPlain, SeedSlash}
InvalidSeeds == {EmptyString, Url("", "", <<"invalid-url">>), Url("ftp", "h", <<>>)}

DefaultArgs ==
    [seed_url |-> SeedPlain, max_depth |-> 1, delay |-> 1, max_pages |-> 2,
     same_domain_only |-> TRUE, respect_robots_txt |-> TRUE,
     delay_strategy |-> "fixed", session_rotation_interval |-> 2,
     enable_proxy_rotation |-> FALSE, proxy_list |-> <<>>,
     validate_proxies |-> TRUE, min_delay |-> 1, max_delay |-> 5]

\* Configurations that pass validation, crawled against host "h".
CrawlInputs ==
    {[DefaultArgs EXCEPT !.seed_url = s, !.max_depth = d, !.max_pages = p,
                         !.same_domain_only = b, !.respect_robots_txt = b] :
        s \in ValidSeeds, d \in 0..MaxDepthBound, p \in 1..MaxPagesBound,
        b \in BOOLEAN}

\* A crawl of the hub host: one page that links to HubLinks pages.
HubInputs ==
    {[DefaultArgs EXCEPT !.seed_url = SeedHub, !.max_depth = 1,
                         !.max_pages = HubLinks + 1,
                         !.session_rotation_interval = 0]}

\* Arguments that each break one rule of the constructor, or two at once;
\* proxy_list holds the numbers i of the proxies Proxy(i).
InvalidInputs ==
    {[DefaultArgs EXCEPT !.seed_url = s] : s \in InvalidSeeds}
    \cup {[DefaultArgs EXCEPT !.max_depth = -1],
          [DefaultArgs EXCEPT !.max_pages = 0],
          [DefaultArgs EXCEPT !.max_pages = -1],
          [DefaultArgs EXCEPT !.delay = -1],
          [DefaultArgs EXCEPT !.max_depth = -1, !.max_pages = 0],
          [DefaultArgs EXCEPT !.delay_strategy = "bogus"],
          [DefaultArgs EXCEPT !.delay_strategy = "bogus", !.seed_url = EmptyString],
          [DefaultArgs EXCEPT !.delay_strategy = "bogus", !.max_pages = 0],
          [DefaultArgs EXCEPT !.enable_proxy_rotation = TRUE,
                              !.proxy_list = <<1, 2>>],
          [DefaultArgs EXCEPT !.enable_proxy_rotation = TRUE,
                              !.proxy_list = <<1>>, !.max_depth = -1],
          [DefaultArgs EXCEPT !.enable_proxy_rotation = TRUE,
                              !.proxy_list = <<1, 2>>, !.validate_proxies = FALSE]}

ConstructorInputs == CrawlInputs \cup HubInputs \cup InvalidInputs

Href(r) == Url("", "", r)

\* Anchor lists of the pages host "h" may serve.
SmallBodies ==
    { <<>>,
      <<Href(<<"/", "a">>), Href(<<"/", "b">>)>>,
      <<Href(<<"/", "a", "/">>), Href(<<"/", "a", "#", "f">>), Href(<<"b">>)>>,
      <<Url("https", "g", <<"/", "c">>), Href(<<"/", "x", ".pdf">>),
        Href(<<"/", "login">>), Href(<<"#", "top">>), Href(<<"/", "b", "?", "q">>)>> }

\* crawl(): max_consecutive_failures = 10
max_consecutive_failures == 10

HubBody == [i \in 1..HubLinks |-> Href(<<"/", ToString(i)>>)]

\* The front page of host "s": its second link is under the path that
\* SiteRobotsTxt disallows.
SiteBody == <<Href(<<"/", "b">>), Href(<<"/", "a">>), Href(<<"/", "c">>)>>

HtmlResponse(hrefs) ==
    [kind |-> "response", status |-> 200, content_type |-> "text/html", hrefs |-> hrefs,
     title |-> "Title", elapsed |-> 1]

OtherResponse(status, content_type) ==
    [kind |-> "response", status |-> status, content_type |-> content_type, hrefs |-> <<>>,
     title |-> "Title", elapsed |-> 1]

Failure(kind) ==
    [kind |-> kind, status |-> 0, content_type |-> "", hrefs |-> <<>>, title |-> "",
     elapsed |-> 0]

\* A response for which the two readings of time.time() around session.get
\* are equal (elapsed is time.time() - request_start, in whole seconds).
InstantResponse == [OtherResponse(404, "text/html") EXCEPT !.elapsed = 0]

\* The hub page that may answer 429 Too Many Requests.
RateLimitedHubPage == Url("https", "hub", <<"/", ToString(max_consecutive_failures)>>)

\* What session.get may do for a URL: return a response or raise an
\* exception of the named requests class.
Responses(url) ==
    IF url.netloc = "hub"
    THEN {HtmlResponse(HubBody), Failure("ConnectionError")}
         \cup (IF url = RateLimitedHubPage
               THEN {OtherResponse(429, "text/html")} ELSE {})
    ELSE IF url.netloc = "s"
    THEN {HtmlResponse(SiteBody), OtherResponse(404, "text/html"), Failure("Timeout")}
    ELSE {HtmlResponse(b) : b \in SmallBodies}
         \cup {OtherResponse(200, "application/pdf"), OtherResponse(404, "text/html"),
               OtherResponse(429, "text/html"), InstantResponse}
         \cup {Failure(k) : k \in {"Timeout", "ConnectionError", "ConnectTimeout",
                                   "ProxyError", "RequestException", "Exception"}}

---------------------------------------------------------------------------
(* crawl_page.                                                             *)

\* The page_data dictionary crawl_page starts from; status_code 0 stands
\* for None and proxy_used <<>> for None.
new_page_data(url) ==
    [url |-> url, title |-> "", links |-> <<>>, status_code |-> 0, error |-> NoneValue,
     content_type |-> NoneValue, response_time |-> <<>>,
     proxy_used |-> <<>>, retry_count |-> 0]

\* Mutation: every content type counts as HTML.
is_html_any(content_type) == TRUE

\* 'text/html' in content_type
is_html(content_type) == content_type \in {"text/html", "text/html; charset=utf-8"}

\* crawl_page, "Process successful response".
response_page_data(pd, r, allowed_domains) ==
    LET got == [pd EXCEPT !.status_code = r.status, !.content_type = r.content_type,
                          !.response_time = <<r.elapsed>>]
    IN  IF r.status = 200
        THEN IF is_html(r.content_type)
             THEN [got EXCEPT !.title = r.title,
                              !.links = extract_links(r.hrefs, pd.url, allowed_domains)]
             ELSE [got EXCEPT !.error = "Non-HTML content"]
        ELSE [got EXCEPT !.error = "HTTP " \o ToString(r.status)]

\* crawl_page, the except clauses; without a proxy the inner handler
\* re-raises, so the class of the exception picks the message.
exception_page_data(pd, kind) ==
    [pd EXCEPT !.error =
        CASE kind \in {"Timeout", "ConnectTimeout"} -> "Request timeout"
          [] kind \in {"ConnectionError", "ProxyError"} -> "Connection error"
          [] kind = "RequestException" -> "Request error"
          [] OTHER -> "Unexpected error"]

fetched_page_data(pd, r, allowed_domains) ==
    IF r.kind = "response" THEN response_page_data(pd, r, allowed_domains)
    ELSE exception_page_data(pd, r.kind)

\* crawl_page, finally: the argument of delay_manager.wait (<<>> for the
\* call without one), chosen by the truth value of page_data['response_time'].
wait_argument(pd) ==
    IF pd.response_time # <<>> /\ pd.response_time[1] # 0 THEN pd.response_time ELSE <<>>

\* _get_current_session: the identifier in use and the open handles after
\* the rotation test and get_session.
rotate_now(count, interval) == count > 0 /\ count % interval = 0

\* Mutation: rotation does not close the handle in use.
current_session_leaky(count, interval, id, open) ==
    LET next_id == IF rotate_now(count, interval) THEN id + 1 ELSE id
    IN  [id |-> next_id, open |-> open \cup {next_id}]

current_session(count, interval, id, open) ==
    LET next_id == IF rotate_now(count, interval) THEN id + 1 ELSE id
        kept == IF rotate_now(count, interval) THEN open \ {id} ELSE open
    IN  [id |-> next_id, open |-> kept \cup {next_id}]

\* Mutation: the sessions are closed but stay in the table.
close_all_sessions_kept(open) == open

\* SessionManager.close_all_sessions: every session is closed and the table
\* cleared.
close_all_sessions(open) == {}

---------------------------------------------------------------------------
(* crawl: the pieces of the loop body.                                     *)

\* Mutation: the limit is stored one too high.
depth_limit_loose(c) == c.max_depth + 1

\* self.max_depth, as stored by __init__ and read by the loop
depth_limit(c) == c.max_depth

\* Mutation: new entries go to the front of the queue.
enqueue_front(queue, entries) == entries \o queue

\* self.url_queue.append(...) for each new entry, in order
enqueue(queue, entries) == queue \o entries

\* Mutation: no clause for KeyboardInterrupt, every exception is wrapped.
crawl_raises_all(exception) == "CrawlerError"

\* The except clauses of crawl(): what reaches the caller when the named
\* exception leaves the loop body.
crawl_raises(exception) ==
    IF exception = "KeyboardInterrupt" THEN "none" ELSE "CrawlerError"

\* Mutation: the loop goes on as long as the frontier holds an entry.
should_continue_unbounded(queue, pages, max_pages) == queue # <<>>

\* Mutation: the budget test lets one more page through.
should_continue_loose(queue, pages, max_pages) == queue # <<>> /\ pages <= max_pages

\* while self.url_queue and pages_crawled < self.max_pages
should_continue(queue, pages, max_pages) == queue # <<>> /\ pages < max_pages

\* Mutation: the depth test also discards the entries of the last level.
skip_entry_strict(url, depth, visited, max_depth) ==
    url \in visited \/ depth >= max_depth

\* Mutation: only the depth test discards an entry.
skip_entry_depth_only(url, depth, visited, max_depth) == depth > max_depth

\* the two "continue" tests after popleft()
skip_entry(url, depth, visited, max_depth) == url \in visited \/ depth > max_depth

\* Mutation: a failed page leaves the failure counter as it was.
failures_after_unchanged(failures, pd) == IF pd.error # NoneValue THEN failures ELSE 0

\* consecutive_failures after the page is handled
failures_after(failures, pd) == IF pd.error # NoneValue THEN failures + 1 ELSE 0

\* Mutation: the abort test is strict.
too_many_failures_late(failures, pd) ==
    pd.error # NoneValue /\ failures + 1 > 10

\* Mutation: the run is never aborted.
too_many_failures_never(failures, pd) == FALSE

\* if page_data['error'] ... if consecutive_failures >= max_consecutive_failures
too_many_failures(failures, pd) ==
    pd.error # NoneValue /\ failures_after(failures, pd) >= max_consecutive_failures

\* Mutation: a link is queued two levels below the page it was found on.
new_entries_deeper(links, visited, depth) ==
    LET fresh == SelectSeq(links, LAMBDA link : link \notin visited)
    IN  [i \in 1..Len(fresh) |-> <<fresh[i], depth + 2>>]

\* for link in page_data['links']: append (link, depth + 1) unless visited
RECURSIVE new_entries(_, _, _)
new_entries(links, visited, depth) ==
    IF links = <<>> THEN <<>>
    ELSE IF Head(links) \notin visited
         THEN <<<<Head(links), depth + 1>>>> \o new_entries(Tail(links), visited, depth)
         ELSE new_entries(Tail(links), visited, depth)

Urls(entries) == [i \in 1..Len(entries) |-> entries[i][1]]

\* Mutation: the links of every page are queued, whatever its depth.
discovered_always(pd, depth, visited, max_depth) == new_entries(pd.links, visited, depth)

\* the entries a page adds to the queue
discovered(pd, depth, visited, max_depth) ==
    IF pd.error = NoneValue /\ depth < max_depth /\ pd.links # <<>>
    THEN new_entries(pd.links, visited, depth)
    ELSE <<>>

\* self.delay_manager.base_delay *= 1.5 on a 429
delay_after(delay_value, pd) ==
    IF pd.status_code = 429 THEN <<3 * delay_value[1], 2 * delay_value[2]>>
    ELSE delay_value

---------------------------------------------------------------------------
(* ProxyRotator.                                                           *)

MaxPool == 3

\* A proxy dictionary in requests format.
Proxy(i) == [http |-> "http://proxy" \o ToString(i) \o ":8080",
             https |-> "https://proxy" \o ToString(i) \o ":8080"]

\* None where a proxy is expected.
NoProxy == [http |-> "", https |-> ""]

\* str(proxy), the key kept in the failed set
proxy_key(proxy) == <<"http", proxy.http, "https", proxy.https>>

\* ProxyRotator.__init__ after the optional validation: the pool, the
\* cycle iterator (position of the element next() yields) and no failures.
ProxyRotator(proxies) ==
    [present |-> TRUE, proxies |-> proxies, position |-> 1, failed |-> {}]

\* self.proxy_rotator = None
NoRotator == [present |-> FALSE, proxies |-> <<>>, position |-> 1, failed |-> {}]

\* The element the k-th further next() of the cycle yields (k = 0 is the
\* coming one).
cycle_at(r, k) == r.proxies[((r.position - 1 + k) % Len(r.proxies)) + 1]

cycle_advance(r, k) == ((r.position - 1 + k) % Len(r.proxies)) + 1

Min(S) == CHOOSE x \in S : \A y \in S : x <= y

\* Mutation: no reset when every proxy is failed.
get_next_no_reset(r) ==
    IF r.proxies = <<>> THEN [proxy |-> NoProxy, rotator |-> r, cleared |-> FALSE]
    ELSE LET hits == {k \in 0..(Len(r.proxies) - 1) :
                         proxy_key(cycle_at(r, k)) \notin r.failed}
         IN  IF hits # {}
             THEN [proxy |-> cycle_at(r, Min(hits)),
                   rotator |-> [r EXCEPT !.position = cycle_advance(r, Min(hits) + 1)],
                   cleared |-> FALSE]
             ELSE [proxy |-> NoProxy, rotator |-> r, cleared |-> FALSE]

\* Mutation: the failed set is not consulted.
get_next_no_skip(r) ==
    IF r.proxies = <<>> THEN [proxy |-> NoProxy, rotator |-> r, cleared |-> FALSE]
    ELSE [proxy |-> cycle_at(r, 0),
          rotator |-> [r EXCEPT !.position = cycle_advance(r, 1)],
          cleared |-> FALSE]

\* ProxyRotator.get_next: up to len(proxies) next() calls looking for a key
\* that is not failed; when none is found the failed set is cleared and
\* one more next() is returned.
get_next(r) ==
    IF r.proxies = <<>> THEN [proxy |-> NoProxy, rotator |-> r, cleared |-> FALSE]
    ELSE LET hits == {k \in 0..(Len(r.proxies) - 1) :
                         proxy_key(cycle_at(r, k)) \notin r.failed}
         IN  IF hits # {}
             THEN [proxy |-> cycle_at(r, Min(hits)),
                   rotator |-> [r EXCEPT !.position = cycle_advance(r, Min(hits) + 1)],
                   cleared |-> FALSE]
             ELSE [proxy |-> cycle_at(r, Len(r.proxies)),
                   rotator |-> [r EXCEPT !.failed = {},
                                         !.position = cycle_advance(r, Len(r.proxies) + 1)],
                   cleared |-> TRUE]

\* ProxyRotator.mark_failed
mark_failed(r, proxy) == [r EXCEPT !.failed = @ \cup {proxy_key(proxy)}]

\* The pools a rotator is built over: none, one to MaxPool distinct
\* proxies, a pool that lists one proxy twice, and a pool of two proxies
\* that lists the second one twice.
Pools ==
    {[i \in 1..n |-> Proxy(i)] : n \in 0..MaxPool}
        \cup {<<Proxy(1), Proxy(1)>>, <<Proxy(1), Proxy(2), Proxy(2)>>}

NoCall == [op |-> "none", proxy |-> NoProxy, cleared |-> FALSE]

---------------------------------------------------------------------------
(* crawl_page: the request, with proxy failover.                           *)

RECURSIVE Subsequences(_)
Subsequences(s) ==
    IF s = <<>> THEN {<<>>}
    ELSE Subsequences(Tail(s)) \cup {<<Head(s)>> \o t : t \in Subsequences(Tail(s))}

\* ProxyRotator._validate_proxies: the proxies that answered the probe
validated_pools(proxy_list, validate_on_init) ==
    IF validate_on_init THEN Subsequences(proxy_list) ELSE {proxy_list}

\* _setup_anti_detection_components: self.proxy_rotator
built_rotator(c, pool) ==
    IF proxy_rotation_enabled(c)
    THEN ProxyRotator([i \in 1..Len(pool) |-> Proxy(pool[i])])
    ELSE NoRotator

\* _get_current_proxy
get_current_proxy(rotator, c) ==
    IF rotator.present /\ proxy_rotation_enabled(c) THEN get_next(rotator)
    ELSE [proxy |-> NoProxy, rotator |-> rotator, cleared |-> FALSE]

\* max_proxy_retries = 3 if current_proxy else 1
max_proxy_retries(current_proxy) == IF current_proxy # NoProxy THEN 3 ELSE 1

\* the classes the inner except clause of the retry loop catches
connection_errors == {"ProxyError", "ConnectTimeout", "ConnectionError"}

\* The for loop over proxy_retry from its attempt-th pass on; outcomes[k]
\* is what session.get does on the k-th pass.  Gives page_data, the
\* rotator, the number of session.get calls made and the proxy of each.
RECURSIVE request_with_retries(_, _, _, _, _, _)
request_with_retries(pd, rotator, current_proxy, outcomes, attempt, allowed_domains) ==
    LET r == outcomes[attempt]
        next == get_next(mark_failed(rotator, current_proxy))
        counted == [pd EXCEPT !.retry_count = @ + 1]
        used == <<proxy_key(current_proxy)>>
    IN  IF r.kind \in connection_errors /\ current_proxy # NoProxy /\ rotator.present
        THEN IF next.proxy = NoProxy
             THEN [page_data |-> [counted EXCEPT !.error = "All proxies failed"],
                   rotator |-> next.rotator, attempts |-> attempt, proxies |-> used]
             ELSE IF attempt = Len(outcomes)
             THEN [page_data |-> [counted EXCEPT
                                     !.error = "Failed to get response after retries"],
                   rotator |-> next.rotator, attempts |-> attempt, proxies |-> used]
             ELSE LET rest == request_with_retries(counted, next.rotator, next.proxy,
                                                   outcomes, attempt + 1, allowed_domains)
                  IN  [rest EXCEPT !.proxies = used \o @]
        ELSE [page_data |-> fetched_page_data(pd, r, allowed_domains),
              rotator |-> rotator, attempts |-> attempt, proxies |-> used]

---------------------------------------------------------------------------
(* DelayManager.  Times and delays are whole seconds; the base delay of    *)
(* the model is even, so that 0.5, 1.5 and 2.0 times the base are whole.   *)

MaxWaits == 11
StartTime == 100

max_response_times == 10
slow_server == 3
moderate_server == 1

\* DelayManager.__init__
DelayManager(base, strategy) ==
    [present |-> TRUE, base_delay |-> base, strategy |-> strategy,
     request_count |-> 0, response_times |-> <<>>, last_request_time |-> 0]

NoDelayManager ==
    [present |-> FALSE, base_delay |-> 0, strategy |-> "fixed",
     request_count |-> 0, response_times |-> <<>>, last_request_time |-> 0]

RECURSIVE Sum(_)
Sum(s) == IF s = <<>> THEN 0 ELSE Head(s) + Sum(Tail(s))

Max(a, b) == IF a >= b THEN a ELSE b

\* _calculate_adaptive_delay, first half: append the sample (response_time
\* is <<>> for None, <<t>> for a value) and pop the oldest beyond ten.
record_response_time(times, response_time) ==
    LET appended == times \o response_time
    IN  IF Len(appended) > max_response_times THEN Tail(appended) ELSE appended

\* Mutation: the two thresholds are exchanged.
adaptive_delay_swapped(base, times) ==
    IF times = <<>> THEN base
    ELSE IF Sum(times) > moderate_server * Len(times) THEN base * 2
    ELSE IF Sum(times) > slow_server * Len(times) THEN (base * 3) \div 2
    ELSE base

\* _calculate_adaptive_delay, second half: the delay for the window.
\* avg > 3.0 is sum > 3.0 * len.
adaptive_delay(base, times) ==
    IF times = <<>> THEN base
    ELSE IF Sum(times) > slow_server * Len(times) THEN base * 2
    ELSE IF Sum(times) > moderate_server * Len(times) THEN (base * 3) \div 2
    ELSE base

\* random.uniform(base * 0.5, base * 1.5): the two ends and the middle
random_delays(base) == {base \div 2, base, (base * 3) \div 2}

Least(a, b) == IF a <= b THEN a ELSE b

\* base * 1.5 ** min(count // 10, 5); whole for the counts of the model
exponential_delay(base, count) ==
    (base * 3 ^ Least(count \div 10, 5)) \div (2 ^ Least(count \div 10, 5))

\* The target delays wait may compute for the strategy.
target_delays(dm, times) ==
    CASE dm.strategy = "fixed" -> {dm.base_delay}
      [] dm.strategy = "random" -> random_delays(dm.base_delay)
      [] dm.strategy = "exponential" -> {exponential_delay(dm.base_delay, dm.request_count)}
      [] dm.strategy = "adaptive" -> {adaptive_delay(dm.base_delay, times)}
      [] OTHER -> {dm.base_delay}

\* Mutation: the sleep is the whole target delay less nothing.
actual_delay_full(delay, time_since_last) == delay

\* max(0, delay - time_since_last)
actual_delay(delay, time_since_last) == Max(0, delay - time_since_last)

\* DelayManager.wait called at current_time: the manager afterwards and
\* what the call computed.  The sleep lasts as long as asked.
wait(dm, current_time, response_time, delay) ==
    LET times == IF dm.strategy = "adaptive"
                 THEN record_response_time(dm.response_times, response_time)
                 ELSE dm.response_times
        time_since_last == current_time - dm.last_request_time
        slept == actual_delay(delay, time_since_last)
        woke == current_time + slept
    IN  [manager |-> [dm EXCEPT !.response_times = times,
                                !.last_request_time = woke,
                                !.request_count = @ + 1],
         call |-> [delay |-> delay, time_since_last |-> time_since_last,
                   slept |-> slept, response_time |-> response_time],
         time |-> woke]

BaseDelays == {2}
Elapsed == {1, 3}
ResponseTimes == {<<>>, <<1>>, <<4>>}

NoWait == [delay |-> 0, time_since_last |-> 0, slept |-> 0, response_time |-> <<>>]

---------------------------------------------------------------------------
(* URLValidator used on its own: the strings it is applied to.             *)

TestRests ==
    { <<>>, <<"/">>, <<"/", "a">>, <<"/", "a", "/">>,
      <<"/", "a", "/", "?", "q">>, <<"/", "a", "?", "q", "/">>,
      <<"/", "a", "#", "f">>, <<"/", "a", "/", "#", "f">>,
      <<"/", "x", ".pdf">>, <<"/", "x", ".PDF">>, <<"/", "x", ".pdf", "?", "q">>,
      <<"/", "login">>, <<"/", "admin", "/">>, <<"/", "a", "?", "next", "/", "login">>,
      <<"/", "x", ".php">>, <<"/", "x", ".php", "?", "q">>,
      <<"/", "a", "?", "f", ".php">> }

TestHosts == {"h", "g", "admin"}

AbsoluteUrls ==
    {Url(s, n, r) : s \in {"https", "http", "ftp"}, n \in TestHosts, r \in TestRests}

RelativeUrls == {Url("", "", r) : r \in TestRests \cup {<<"b">>, <<"b", "/">>}}

BaseUrls == {SeedPlain, SeedSlash, Url("https", "h", <<"/", "a", "?", "q">>)}

AllowLists == {{}, {"h"}}

NoValidatorCall ==
    [fn |-> "none", url |-> EmptyString, base_url |-> EmptyString,
     allowed_domains |-> {}, valid |-> FALSE, normalized |-> EmptyString]

---------------------------------------------------------------------------
(* UserAgentRotator.                                                       *)

\* _get_default_user_agents, cut down to two of its strings
default_user_agents == <<"Default1", "Default2">>

\* UserAgentRotator.__init__: the list, the mode, and itertools.cycle over
\* the list.  The cycle reads the list itself through a list iterator
\* (consumed = elements it has yielded) until that iterator ends, keeps
\* every element it yields in `saved`, and from then on replays `saved`
\* (replay = place of the coming element).
UserAgentRotator(user_agents, random_rotation) ==
    [present |-> TRUE,
     user_agents |-> IF user_agents # <<>> THEN user_agents ELSE default_user_agents,
     random_rotation |-> random_rotation,
     consumed |-> 0, exhausted |-> FALSE, saved |-> <<>>, replay |-> 1]

NoUserAgentRotator ==
    [present |-> FALSE, user_agents |-> <<>>, random_rotation |-> FALSE,
     consumed |-> 0, exhausted |-> FALSE, saved |-> <<>>, replay |-> 1]

\* next(self._iterator)
cycle_next(r) ==
    IF ~r.exhausted /\ r.consumed < Len(r.user_agents)
    THEN [agent |-> r.user_agents[r.consumed + 1],
          rotator |-> [r EXCEPT !.consumed = @ + 1,
                                !.saved = Append(@, r.user_agents[r.consumed + 1])]]
    ELSE IF r.saved = <<>>
    THEN [agent |-> "StopIteration", rotator |-> [r EXCEPT !.exhausted = TRUE]]
    ELSE [agent |-> r.saved[r.replay],
          rotator |-> [r EXCEPT !.exhausted = TRUE,
                                !.replay = (r.replay % Len(r.saved)) + 1]]

\* UserAgentRotator.get_next: the results it may give (random.choice picks
\* any element and raises IndexError on an empty list), each with the
\* rotator it leaves.
user_agent_get_next(r) ==
    IF r.random_rotation
    THEN IF r.user_agents = <<>> THEN {[agent |-> "IndexError", rotator |-> r]}
         ELSE {[agent |-> r.user_agents[i], rotator |-> r] : i \in 1..Len(r.user_agents)}
    ELSE {cycle_next(r)}

\* UserAgentRotator.add_user_agent
add_user_agent(r, user_agent) ==
    IF \E i \in 1..Len(r.user_agents) : r.user_agents[i] = user_agent THEN r
    ELSE [r EXCEPT !.user_agents = Append(@, user_agent)]

\* UserAgentRotator.remove_user_agent: list.remove drops the first
\* occurrence; ValueError becomes the result False.
remove_user_agent(r, user_agent) ==
    LET at == IndexOf(r.user_agents, user_agent)
    IN  IF at = 0 THEN [removed |-> FALSE, rotator |-> r]
        ELSE [removed |-> TRUE,
              rotator |-> [r EXCEPT !.user_agents =
                              SubSeq(@, 1, at - 1) \o SubSeq(@, at + 1, Len(@))]]

\* The strings given to the constructor and to the two methods.
AgentNames == {"A", "B", "C"}

AgentLists == {<<>>, <<"A">>, <<"A", "B">>}

NoAgentCall == [op |-> "none", user_agent |-> "", result |-> "", before |-> <<>>]

---------------------------------------------------------------------------
(* Inputs of a RobotsTxtParser used on its own.  Paths are spelled one     *)
(* character per token, so a prefix of tokens is a prefix of characters.   *)

MaxLines == 3

RobotsLines ==
    {Line("User-agent", <<"*">>), Line("User-Agent", <<"WebBot">>),
     Line("user-agent", <<"other">>), Line("Disallow", <<"/", "a">>),
     Line("DISALLOW", <<"/", "b">>), Line("Disallow", <<>>),
     Line("Allow", <<"/", "a">>), CommentLine, TextLine}

RobotsFiles == UNION {[1..n -> RobotsLines] : n \in 0..MaxLines}

RobotsAgents == {<<"*">>, <<"webbot">>, <<"WEBBOT">>, <<"mybot">>}

RobotsPaths ==
    {<<>>, <<"/">>, <<"/", "a">>, <<"/", "a", "b">>, <<"/", "b", "/", "a">>, <<"/", "c">>}

NoRobotsCall ==
    [fn |-> "none", content |-> <<>>, user_agent |-> <<>>, url_path |-> <<>>,
     allowed |-> TRUE]

---------------------------------------------------------------------------
(* The reports on the result log.                                          *)

\* page['error'] as a truth value
has_error(page) == page.error # NoneValue /\ page.error # ""

no_error(page) == ~has_error(page)

\* Mutation: every page counts as failed.
get_failed_urls_all(data) == data

\* WebCrawler.get_failed_urls
get_failed_urls(data) == SelectSeq(data, has_error)

\* WebCrawler.get_successful_urls
get_successful_urls(data) == SelectSeq(data, no_error)

\* WebCrawler.get_summary (without domains_found)
get_summary(data, visited) ==
    LET total_pages == Len(data)
        successful_pages == Len(SelectSeq(data, no_error))
        total_links == Sum([i \in 1..Len(data) |-> Len(data[i].links)])
    IN  [total_pages_crawled |-> total_pages,
         successful_pages |-> successful_pages,
         failed_pages |-> total_pages - successful_pages,
         total_links_found |-> total_links,
         unique_urls_discovered |-> Cardinality(visited),
         max_depth_reached |-> IF successful_pages = 0 THEN 0
                               ELSE Max(0, successful_pages - 1)]

---------------------------------------------------------------------------
(* The state machine.                                                      *)

NoCurrent == <<EmptyString, 0>>
NoPage == new_page_data(EmptyString)
EmptyCache == [d \in {} |-> NoParser]

CrawlerInit ==
    /\ pc = "new"
    /\ raised = "none"
    /\ attrs = {}
    /\ config = DefaultArgs
    /\ url_queue = <<>>
    /\ visited_urls = {}
    /\ crawled_data = <<>>
    /\ pages_crawled = 0
    /\ consecutive_failures = 0
    /\ current = NoCurrent
    /\ page_data = NoPage
    /\ robots_cache = EmptyCache
    /\ request_count = 0
    /\ session_id = 0
    /\ sessions = {}
    /\ base_delay = <<0, 1>>
    /\ wait_calls = 0
    /\ get_log = <<>>
    /\ proxy_log = <<>>
    /\ session_log = <<>>
    /\ depth_log = <<>>
    /\ dequeues = 0
    /\ enqueued = <<>>
    /\ interrupted = FALSE
    /\ calls = <<>>

\* No component object is in use on its own.
RotatorIdle == proxy_rotator = NoRotator /\ rotator_call = NoCall

DelayIdle == delay_manager = NoDelayManager /\ now = StartTime /\ wait_call = NoWait

ValidatorIdle == validator_call = NoValidatorCall

AgentIdle == user_agent_rotator = NoUserAgentRotator /\ agent_call = NoAgentCall

RobotsIdle == robots_call = NoRobotsCall

UtilityIdle == ValidatorIdle /\ AgentIdle /\ RobotsIdle

Init == CrawlerInit /\ RotatorIdle /\ DelayIdle /\ UtilityIdle

\* WebCrawler(...): either an exception leaves __init__ and no instance is
\* bound, or the instance is ready with the seed in its queue.
Construct ==
    /\ UNCHANGED <<rotator_call, delay_vars, utility_vars>>
    /\ pc = "new"
    /\ \E args \in ConstructorInputs :
         /\ config' = args
         /\ \E pool \in validated_pools(args.proxy_list, args.validate_proxies) :
               proxy_rotator' = IF "proxy_rotator" \in init_outcome(args).attrs
                                THEN built_rotator(args, pool) ELSE NoRotator
         /\ raised' = init_outcome(args).raised
         /\ attrs' = init_outcome(args).attrs
         /\ pc' = IF init_outcome(args).raised = "none" THEN "ready" ELSE "raised"
         /\ url_queue' = IF "url_queue" \in init_outcome(args).attrs
                         THEN <<<<args.seed_url, 0>>>> ELSE <<>>
         /\ enqueued' = IF "url_queue" \in init_outcome(args).attrs
                        THEN <<<<args.seed_url, 0>>>> ELSE <<>>
         /\ base_delay' = IF "delay_manager" \in init_outcome(args).attrs
                          THEN <<args.delay, 1>> ELSE base_delay
    /\ UNCHANGED <<visited_urls, crawled_data, pages_crawled, consecutive_failures,
                   current, page_data, robots_cache, request_count, session_id,
                   sessions, wait_calls, get_log, proxy_log, session_log, depth_log,
                   dequeues, interrupted, calls>>

\* crawl() up to the first test of the while condition.
CrawlStart ==
    /\ UNCHANGED component_vars
    /\ pc = "ready"
    /\ pc' = "loop"
    /\ pages_crawled' = 0
    /\ consecutive_failures' = 0
    /\ calls' = Append(calls, Len(crawled_data))
    /\ UNCHANGED <<enqueued, raised, attrs, config, url_queue, visited_urls, crawled_data,
                   current, page_data, robots_cache, request_count, session_id,
                   sessions, base_delay, wait_calls, get_log, proxy_log, session_log,
                   depth_log, dequeues,
                   interrupted>>

\* The while condition fails: finally closes the sessions, crawl() returns.
LoopExit ==
    /\ UNCHANGED component_vars
    /\ pc = "loop"
    /\ ~should_continue(url_queue, pages_crawled, config.max_pages)
    /\ pc' = "done"
    /\ sessions' = close_all_sessions(sessions)
    /\ UNCHANGED <<enqueued, raised, attrs, config, url_queue, visited_urls, crawled_data,
                   pages_crawled, consecutive_failures, current, page_data,
                   robots_cache, request_count, session_id, base_delay, wait_calls,
                   get_log, proxy_log, session_log, depth_log, dequeues, interrupted, calls>>

\* popleft() of an entry that one of the two "continue" tests discards.
DequeueSkip ==
    /\ UNCHANGED component_vars
    /\ pc = "loop"
    /\ should_continue(url_queue, pages_crawled, config.max_pages)
    /\ skip_entry(Head(url_queue)[1], Head(url_queue)[2], visited_urls, depth_limit(config))
    /\ url_queue' = Tail(url_queue)
    /\ dequeues' = dequeues + 1
    /\ UNCHANGED <<enqueued, pc, raised, attrs, config, visited_urls, crawled_data,
                   pages_crawled, consecutive_failures, current, page_data,
                   robots_cache, request_count, session_id, sessions, base_delay,
                   wait_calls, get_log, proxy_log, session_log, depth_log, interrupted, calls>>

\* popleft() of an entry that is crawled: it is marked visited, crawl_page
\* runs its robots gate and, when allowed, takes the session; control then
\* rests in session.get (or, when blocked, in the finally clause's wait).
DequeueVisit ==
    /\ UNCHANGED component_vars
    /\ pc = "loop"
    /\ should_continue(url_queue, pages_crawled, config.max_pages)
    /\ ~skip_entry(Head(url_queue)[1], Head(url_queue)[2], visited_urls, depth_limit(config))
    /\ LET url == Head(url_queue)[1]
           looked == IF config.respect_robots_txt
                     THEN get_robots_txt(url.netloc, robots_cache, attrs)
                     ELSE [parser |-> NoParser, cache |-> robots_cache]
           allowed == can_crawl_url(config.respect_robots_txt, looked.parser, url)
           session == current_session(request_count, rotation_interval(config),
                                      session_id, sessions)
       IN  /\ url_queue' = Tail(url_queue)
           /\ dequeues' = dequeues + 1
           /\ visited_urls' = visited_urls \cup {url}
           /\ current' = Head(url_queue)
           /\ robots_cache' = looked.cache
           /\ IF allowed
              THEN /\ page_data' = new_page_data(url)
                   /\ session_id' = session.id
                   /\ sessions' = session.open
                   /\ session_log' = Append(session_log, session.id)
                   /\ pc' = "fetch"
                   /\ UNCHANGED request_count
              ELSE /\ page_data' = [new_page_data(url) EXCEPT
                                       !.error = "Blocked by robots.txt"]
                   /\ request_count' = request_count + 1
                   /\ pc' = "wait"
                   /\ UNCHANGED <<session_id, sessions, session_log>>
    /\ UNCHANGED <<enqueued, raised, attrs, config, crawled_data, pages_crawled,
                   consecutive_failures, base_delay, wait_calls, get_log, proxy_log,
                   depth_log, interrupted, calls>>

\* crawl_page from _get_current_proxy on: the proxy is taken, session.get
\* returns or raises (with a proxy, up to three times), page_data is
\* filled and control reaches the wait of the finally clause.
Fetch ==
    /\ UNCHANGED <<rotator_call, delay_vars, utility_vars>>
    /\ pc = "fetch"
    /\ LET got == get_current_proxy(proxy_rotator, config)
           started == [page_data EXCEPT
                          !.proxy_used = IF got.proxy # NoProxy
                                         THEN proxy_key(got.proxy) ELSE <<>>]
       IN  \E outcomes \in [1..max_proxy_retries(got.proxy) -> Responses(current[1])] :
             LET done == request_with_retries(started, got.rotator, got.proxy, outcomes,
                                              1, allowed_domains_of(config))
             IN  /\ page_data' = done.page_data
                 /\ proxy_rotator' = done.rotator
                 /\ get_log' = get_log \o [i \in 1..done.attempts |-> current[1]]
                 /\ proxy_log' = proxy_log \o done.proxies
    /\ request_count' = request_count + 1
    /\ pc' = "wait"
    /\ UNCHANGED <<enqueued, raised, attrs, config, url_queue, visited_urls, crawled_data,
                   pages_crawled, consecutive_failures, current, robots_cache,
                   session_id, sessions, session_log, base_delay, wait_calls,
                   depth_log, dequeues, interrupted, calls>>

\* The wait returns, crawl_page returns page_data, and crawl() runs the
\* rest of the loop body: append, count, abort test, enqueue, 429 backoff.
PageDone ==
    /\ UNCHANGED component_vars
    /\ pc = "wait"
    /\ wait_calls' = wait_calls + 1
    /\ crawled_data' = Append(crawled_data, page_data)
    /\ depth_log' = Append(depth_log, current[2])
    /\ pages_crawled' = pages_crawled + 1
    /\ consecutive_failures' = failures_after(consecutive_failures, page_data)
    /\ IF too_many_failures(consecutive_failures, page_data)
       THEN /\ pc' = "done"
            /\ sessions' = close_all_sessions(sessions)
            /\ UNCHANGED <<url_queue, base_delay, enqueued>>
       ELSE /\ pc' = "loop"
            /\ url_queue' = enqueue(url_queue, discovered(page_data, current[2],
                                              visited_urls, depth_limit(config)))
            /\ enqueued' = enqueued \o discovered(page_data, current[2],
                                              visited_urls, depth_limit(config))
            /\ base_delay' = delay_after(base_delay, page_data)
            /\ UNCHANGED sessions
    /\ current' = NoCurrent
    /\ page_data' = NoPage
    /\ UNCHANGED <<raised, attrs, config, visited_urls, robots_cache, request_count,
                   session_id, get_log, proxy_log, session_log, dequeues, interrupted, calls>>

\* KeyboardInterrupt while crawl() is in its loop.  In session.get it
\* passes crawl_page's except clauses, runs the finally clause (count,
\* wait) and reaches crawl(); in the wait it leaves the sleep.  crawl()
\* catches it, closes the sessions and returns.
Interrupt ==
    /\ UNCHANGED <<rotator_call, delay_vars, utility_vars>>
    /\ pc \in {"loop", "fetch", "wait"}
    /\ interrupted' = TRUE
    /\ raised' = crawl_raises("KeyboardInterrupt")
    /\ pc' = IF crawl_raises("KeyboardInterrupt") = "none" THEN "done" ELSE "failed"
    /\ sessions' = close_all_sessions(sessions)
    /\ IF pc = "fetch"
       THEN /\ get_log' = Append(get_log, current[1])
            /\ proxy_log' = Append(proxy_log,
                    proxy_key(get_current_proxy(proxy_rotator, config).proxy))
            /\ proxy_rotator' = get_current_proxy(proxy_rotator, config).rotator
            /\ request_count' = request_count + 1
            /\ wait_calls' = wait_calls + 1
       ELSE UNCHANGED <<get_log, proxy_log, proxy_rotator, request_count,
                         wait_calls>>
    /\ current' = NoCurrent
    /\ page_data' = NoPage
    /\ UNCHANGED <<enqueued, attrs, config, url_queue, visited_urls, crawled_data,
                   pages_crawled, consecutive_failures, robots_cache, session_id,
                   session_log, base_delay, depth_log, dequeues, calls>>

\* An exception of class Exception leaves the loop body: it is raised in
\* the wait of crawl_page's finally clause, which no except clause of
\* crawl_page covers.  crawl() logs it, raises CrawlerError in its place,
\* and the finally clause closes the sessions on the way out.
LoopError ==
    /\ UNCHANGED component_vars
    /\ pc = "wait"
    /\ raised' = crawl_raises("Exception")
    /\ pc' = IF crawl_raises("Exception") = "none" THEN "done" ELSE "failed"
    /\ sessions' = close_all_sessions(sessions)
    /\ current' = NoCurrent
    /\ page_data' = NoPage
    /\ UNCHANGED <<enqueued, attrs, config, url_queue, visited_urls, crawled_data,
                   pages_crawled, consecutive_failures, robots_cache, request_count,
                   session_id, base_delay, wait_calls, get_log, proxy_log, session_log,
                   depth_log, dequeues,
                   interrupted, calls>>

Next ==
    \/ Construct
    \/ CrawlStart
    \/ LoopExit
    \/ DequeueSkip
    \/ DequeueVisit
    \/ Fetch
    \/ PageDone
    \/ Interrupt
    \/ LoopError

Spec == Init /\ [][Next]_vars

---------------------------------------------------------------------------
(* crawl() under fair scheduling, on a constructed crawler that keeps to   *)
(* the domain of its seed.                                                 *)

TerminationInputs ==
    {c \in CrawlInputs : c.same_domain_only /\ c.seed_url = SeedPlain}

InitTermination ==
    /\ RotatorIdle /\ DelayIdle /\ UtilityIdle
    /\ config \in TerminationInputs
    /\ pc = "ready"
    /\ raised = "none"
    /\ attrs = AllAttrs
    /\ url_queue = <<<<config.seed_url, 0>>>>
    /\ enqueued = <<<<config.seed_url, 0>>>>
    /\ visited_urls = {}
    /\ crawled_data = <<>>
    /\ pages_crawled = 0
    /\ consecutive_failures = 0
    /\ current = NoCurrent
    /\ page_data = NoPage
    /\ robots_cache = EmptyCache
    /\ request_count = 0
    /\ session_id = 0
    /\ sessions = {}
    /\ base_delay = <<config.delay, 1>>
    /\ wait_calls = 0
    /\ get_log = <<>>
    /\ proxy_log = <<>>
    /\ session_log = <<>>
    /\ depth_log = <<>>
    /\ dequeues = 0
    /\ interrupted = FALSE
    /\ calls = <<>>

\* The steps crawl() takes by itself once it runs: the interpreter goes on,
\* and every session.get and every wait returns.  KeyboardInterrupt and an
\* exception in the wait are events that may or may not happen.
CrawlStep == LoopExit \/ DequeueSkip \/ DequeueVisit \/ Fetch \/ PageDone

NextTermination ==
    \/ CrawlStart
    \/ LoopExit
    \/ DequeueSkip
    \/ DequeueVisit
    \/ Fetch
    \/ PageDone
    \/ Interrupt
    \/ LoopError

SpecTermination == InitTermination /\ [][NextTermination]_vars /\ WF_vars(CrawlStep)

---------------------------------------------------------------------------
(* crawl() called again on the same instance, up to MaxCalls calls in all. *)

MaxCalls == 2

\* A further crawl() call, after the previous one returned or raised: the
\* two counters are locals and start at 0, everything else is as it was.
CrawlAgain ==
    /\ UNCHANGED component_vars
    /\ pc \in {"done", "failed"}
    /\ Len(calls) < MaxCalls
    /\ pc' = "loop"
    /\ raised' = "none"
    /\ pages_crawled' = 0
    /\ consecutive_failures' = 0
    /\ calls' = Append(calls, Len(crawled_data))
    /\ UNCHANGED <<enqueued, attrs, config, url_queue, visited_urls, crawled_data,
                   current, page_data, robots_cache, request_count, session_id,
                   sessions, base_delay, wait_calls, get_log, proxy_log, session_log,
                   depth_log, dequeues, interrupted>>

NextResume ==
    \/ CrawlStart
    \/ CrawlAgain
    \/ LoopExit
    \/ DequeueSkip
    \/ DequeueVisit
    \/ Fetch
    \/ PageDone
    \/ Interrupt
    \/ LoopError

SpecResume == InitTermination /\ [][NextResume]_vars

---------------------------------------------------------------------------
(* A ProxyRotator used on its own.                                         *)

InitRotator ==
    /\ CrawlerInit /\ DelayIdle /\ UtilityIdle
    /\ proxy_rotator \in {ProxyRotator(proxies) : proxies \in Pools}
    /\ rotator_call = NoCall

RotatorGetNext ==
    /\ proxy_rotator.present
    /\ proxy_rotator' = get_next(proxy_rotator).rotator
    /\ rotator_call' = [op |-> "get_next", proxy |-> get_next(proxy_rotator).proxy,
                        cleared |-> get_next(proxy_rotator).cleared]
    /\ UNCHANGED <<crawler_vars, delay_vars, utility_vars>>

RotatorMarkFailed ==
    /\ proxy_rotator.present
    /\ \E i \in 1..MaxPool :
         /\ proxy_rotator' = mark_failed(proxy_rotator, Proxy(i))
         /\ rotator_call' = [op |-> "mark_failed", proxy |-> Proxy(i), cleared |-> FALSE]
    /\ UNCHANGED <<crawler_vars, delay_vars, utility_vars>>

NextRotator == RotatorGetNext \/ RotatorMarkFailed

SpecRotator == InitRotator /\ [][NextRotator]_vars

---------------------------------------------------------------------------
(* A DelayManager used on its own.                                         *)

InitDelay ==
    /\ CrawlerInit /\ RotatorIdle /\ UtilityIdle
    /\ delay_manager \in {DelayManager(b, s) : b \in BaseDelays, s \in valid_strategies}
    /\ now = StartTime
    /\ wait_call = NoWait

\* Some time after the previous call, wait(response_time) is called and
\* returns.
DelayWait ==
    /\ delay_manager.present
    /\ delay_manager.request_count < MaxWaits
    /\ \E e \in Elapsed, response_time \in ResponseTimes :
       \E delay \in target_delays(delay_manager,
                       record_response_time(delay_manager.response_times, response_time)) :
         LET done == wait(delay_manager, now + e, response_time, delay)
         IN  /\ delay_manager' = done.manager
             /\ wait_call' = done.call
             /\ now' = done.time
    /\ UNCHANGED <<crawler_vars, proxy_vars, utility_vars>>

NextDelay == DelayWait

SpecDelay == InitDelay /\ [][NextDelay]_vars

---------------------------------------------------------------------------
(* The DelayManager of a constructed crawler: __init__ stores min_delay    *)
(* and max_delay in the AntiDetectionConfig and builds the manager from    *)
(* delay and delay_strategy.                                               *)

\* The pairs (min_delay, max_delay) given to the constructor: the defaults
\* and a narrower pair.
DelayBounds == {<<1, 5>>, <<2, 3>>}

PacingInputs ==
    {[DefaultArgs EXCEPT !.delay = b, !.delay_strategy = s,
                         !.min_delay = mm[1], !.max_delay = mm[2]] :
        b \in BaseDelays, s \in valid_strategies, mm \in DelayBounds}

\* self.delay_manager = DelayManager(base_delay=self.delay, strategy=...)
setup_delay_manager(c) == DelayManager(c.delay, c.delay_strategy)

InitPacing ==
    /\ RotatorIdle /\ UtilityIdle
    /\ config \in PacingInputs
    /\ delay_manager = setup_delay_manager(config)
    /\ now = StartTime
    /\ wait_call = NoWait
    /\ pc = "ready"
    /\ raised = "none"
    /\ attrs = AllAttrs
    /\ url_queue = <<<<config.seed_url, 0>>>>
    /\ enqueued = <<<<config.seed_url, 0>>>>
    /\ visited_urls = {}
    /\ crawled_data = <<>>
    /\ pages_crawled = 0
    /\ consecutive_failures = 0
    /\ current = NoCurrent
    /\ page_data = NoPage
    /\ robots_cache = EmptyCache
    /\ request_count = 0
    /\ session_id = 0
    /\ sessions = {}
    /\ base_delay = <<config.delay, 1>>
    /\ wait_calls = 0
    /\ get_log = <<>>
    /\ proxy_log = <<>>
    /\ session_log = <<>>
    /\ depth_log = <<>>
    /\ dequeues = 0
    /\ interrupted = FALSE
    /\ calls = <<>>

NextPacing == DelayWait

SpecPacing == InitPacing /\ [][NextPacing]_vars

---------------------------------------------------------------------------
(* A URLValidator used on its own: one call on one string.                 *)

InitValidator == CrawlerInit /\ RotatorIdle /\ DelayIdle /\ UtilityIdle

ValidateUrl ==
    /\ validator_call = NoValidatorCall
    /\ \E url \in AbsoluteUrls, allowed \in AllowLists :
         validator_call' = [NoValidatorCall EXCEPT
                               !.fn = "is_valid_url", !.url = url,
                               !.allowed_domains = allowed,
                               !.valid = is_valid_url(url, allowed)]
    /\ UNCHANGED <<crawler_vars, proxy_vars, delay_vars, agent_vars, robots_call>>

NormalizeUrl ==
    /\ validator_call = NoValidatorCall
    /\ \E url \in AbsoluteUrls \cup RelativeUrls, base \in BaseUrls :
         validator_call' = [NoValidatorCall EXCEPT
                               !.fn = "normalize_url", !.url = url, !.base_url = base,
                               !.normalized = normalize_url(url, base)]
    /\ UNCHANGED <<crawler_vars, proxy_vars, delay_vars, agent_vars, robots_call>>

NextValidator == ValidateUrl \/ NormalizeUrl

SpecValidator == InitValidator /\ [][NextValidator]_vars

---------------------------------------------------------------------------
(* crawl() on an instance whose robots lookup works.  __init__ never       *)
(* assigns the session attribute _get_robots_txt reads, so the instance is *)
(* one that was constructed and had a session attribute set afterwards;    *)
(* it crawls host "s", whose robots.txt disallows one of the linked pages. *)

SessionArgs(interval) ==
    [DefaultArgs EXCEPT !.seed_url = SeedSite, !.max_depth = 1, !.max_pages = 4,
                        !.session_rotation_interval = interval]

InitSessions ==
    /\ RotatorIdle /\ DelayIdle /\ UtilityIdle
    /\ \E interval \in 1..2 : config = SessionArgs(interval)
    /\ pc = "ready"
    /\ raised = "none"
    /\ attrs = AllAttrs \cup {"session"}
    /\ url_queue = <<<<SeedSite, 0>>>>
    /\ enqueued = <<<<SeedSite, 0>>>>
    /\ visited_urls = {}
    /\ crawled_data = <<>>
    /\ pages_crawled = 0
    /\ consecutive_failures = 0
    /\ current = NoCurrent
    /\ page_data = NoPage
    /\ robots_cache = EmptyCache
    /\ request_count = 0
    /\ session_id = 0
    /\ sessions = {}
    /\ base_delay = <<1, 1>>
    /\ wait_calls = 0
    /\ get_log = <<>>
    /\ proxy_log = <<>>
    /\ session_log = <<>>
    /\ depth_log = <<>>
    /\ dequeues = 0
    /\ interrupted = FALSE
    /\ calls = <<>>

NextSessions ==
    \/ CrawlStart
    \/ LoopExit
    \/ DequeueVisit
    \/ Fetch
    \/ PageDone
    \/ Interrupt
    \/ LoopError

SpecSessions == InitSessions /\ [][NextSessions]_vars

---------------------------------------------------------------------------
(* crawl() on an instance that holds a proxy rotator.  __init__ cannot    *)
(* build one (setup_components_error), so the instance is one that was    *)
(* constructed without proxies and had proxy_rotator and                  *)
(* enable_proxy_rotation set afterwards; the seed is its only page.       *)

FailoverArgs(pool) ==
    [DefaultArgs EXCEPT !.max_depth = 0, !.max_pages = 1,
                        !.enable_proxy_rotation = TRUE,
                        !.proxy_list = [i \in 1..Len(pool) |-> i]]

InitFailover ==
    /\ DelayIdle /\ UtilityIdle
    /\ rotator_call = NoCall
    /\ \E pool \in Pools \ {<<>>} :
         /\ config = FailoverArgs(pool)
         /\ proxy_rotator = ProxyRotator(pool)
    /\ pc = "ready"
    /\ raised = "none"
    /\ attrs = AllAttrs
    /\ url_queue = <<<<SeedPlain, 0>>>>
    /\ enqueued = <<<<SeedPlain, 0>>>>
    /\ visited_urls = {}
    /\ crawled_data = <<>>
    /\ pages_crawled = 0
    /\ consecutive_failures = 0
    /\ current = NoCurrent
    /\ page_data = NoPage
    /\ robots_cache = EmptyCache
    /\ request_count = 0
    /\ session_id = 0
    /\ sessions = {}
    /\ base_delay = <<1, 1>>
    /\ wait_calls = 0
    /\ get_log = <<>>
    /\ proxy_log = <<>>
    /\ session_log = <<>>
    /\ depth_log = <<>>
    /\ dequeues = 0
    /\ interrupted = FALSE
    /\ calls = <<>>

NextFailover ==
    \/ CrawlStart
    \/ LoopExit
    \/ DequeueVisit
    \/ Fetch
    \/ PageDone
    \/ Interrupt
    \/ LoopError

SpecFailover == InitFailover /\ [][NextFailover]_vars

---------------------------------------------------------------------------
(* A UserAgentRotator used on its own.                                     *)

InitAgents ==
    /\ CrawlerInit /\ RotatorIdle /\ DelayIdle /\ ValidatorIdle /\ RobotsIdle
    /\ user_agent_rotator \in {UserAgentRotator(l, m) : l \in AgentLists, m \in BOOLEAN}
    /\ agent_call = NoAgentCall

AgentGetNext ==
    /\ \E got \in user_agent_get_next(user_agent_rotator) :
         /\ user_agent_rotator' = got.rotator
         /\ agent_call' = [op |-> "get_next", user_agent |-> "", result |-> got.agent,
                           before |-> user_agent_rotator.user_agents]
    /\ UNCHANGED <<crawler_vars, proxy_vars, delay_vars, validator_call, robots_call>>

AgentAdd ==
    /\ \E a \in AgentNames :
         /\ user_agent_rotator' = add_user_agent(user_agent_rotator, a)
         /\ agent_call' = [op |-> "add_user_agent", user_agent |-> a, result |-> "None",
                           before |-> user_agent_rotator.user_agents]
    /\ UNCHANGED <<crawler_vars, proxy_vars, delay_vars, validator_call, robots_call>>

AgentRemove ==
    /\ \E a \in AgentNames :
         LET done == remove_user_agent(user_agent_rotator, a)
         IN  /\ user_agent_rotator' = done.rotator
             /\ agent_call' = [op |-> "remove_user_agent", user_agent |-> a,
                               result |-> IF done.removed THEN "True" ELSE "False",
                               before |-> user_agent_rotator.user_agents]
    /\ UNCHANGED <<crawler_vars, proxy_vars, delay_vars, validator_call, robots_call>>

NextAgents == AgentGetNext \/ AgentAdd \/ AgentRemove

SpecAgents == InitAgents /\ [][NextAgents]_vars

---------------------------------------------------------------------------
(* A RobotsTxtParser used on its own: one file parsed, one path asked.     *)

InitRobots == CrawlerInit /\ RotatorIdle /\ DelayIdle /\ UtilityIdle

\* RobotsTxtParser(content, user_agent).can_crawl(url_path)
RobotsCanCrawl ==
    /\ robots_call = NoRobotsCall
    /\ \E content \in RobotsFiles, user_agent \in RobotsAgents, url_path \in RobotsPaths :
         robots_call' = [fn |-> "can_crawl", content |-> content,
                         user_agent |-> user_agent, url_path |-> url_path,
                         allowed |-> can_crawl(RobotsTxtParser(content, user_agent),
                                               url_path)]
    /\ UNCHANGED <<crawler_vars, proxy_vars, delay_vars, validator_call, agent_vars>>

NextRobots == RobotsCanCrawl

SpecRobots == InitRobots /\ [][NextRobots]_vars

---------------------------------------------------------------------------
(* Properties.                                                             *)

InCrawl == pc \in {"loop", "fetch", "wait", "done"}

LogUrls == [i \in 1..Len(crawled_data) |-> crawled_data[i].url]

Range(s) == {s[i] : i \in 1..Len(s)}

\* The normalized form of a URL of the run: links are stored normalized,
\* the seed is stored as given.
Canonical(u) == IF u = config.seed_url THEN normalize_url(u, u) ELSE u

NoTwoAlike(s) ==
    \A i, j \in 1..Len(s) : i # j => Canonical(s[i]) # Canonical(s[j])

RECURSIVE TrailingFailures(_)
TrailingFailures(log) ==
    IF log = <<>> \/ Last(log).error = NoneValue THEN 0
    ELSE 1 + TrailingFailures(SubSeq(log, 1, Len(log) - 1))

\* C1: within one run each distinct normalized URL, the seed included, is
\* requested at most once and has at most one PageResult in the log.
C1_NormalizedUrlFetchedOnce == NoTwoAlike(LogUrls) /\ NoTwoAlike(get_log)

C3_NoResultBeyondMaxDepth ==
    /\ Len(depth_log) = Len(crawled_data)
    /\ \A i \in 1..Len(depth_log) : depth_log[i] <= config.max_depth

C3_DeepestLevelFetched ==
    /\ pc = "done"
    /\ config.max_depth = 2
    /\ \E i \in 1..Len(depth_log) :
         /\ depth_log[i] = config.max_depth
         /\ crawled_data[i].links # <<>>

\* C4: the 10th failure in a row ends the loop at once, crawl() returning
\* normally with the frontier and the budget not used up; the counter is
\* the number of failures since the last success, so the log never shows
\* more than 10 failures in a row.
C4_AbortAfterTenFailures ==
    /\ TrailingFailures(crawled_data) >= 10 => pc = "done" /\ raised = "none"
    /\ TrailingFailures(crawled_data) <= 10
    /\ InCrawl => consecutive_failures = TrailingFailures(crawled_data)

C4_AbortedWithWorkLeft ==
    /\ pc = "done" /\ ~interrupted /\ raised = "none"
    /\ TrailingFailures(crawled_data) = 10
    /\ Len(crawled_data) > 10 /\ crawled_data[1].error = NoneValue
    /\ url_queue # <<>>
    /\ pages_crawled < config.max_pages

\* C5: a KeyboardInterrupt in the loop (at the while test, in the fetch or
\* in the delay wait) ends crawl() without an exception, with no further
\* dequeue and with the log as it was.
C5_InterruptReturnsLog ==
    [][/\ (~interrupted /\ interrupted') =>
            /\ pc' = "done" /\ raised' = "none"
            /\ crawled_data' = crawled_data /\ dequeues' = dequeues
       /\ interrupted =>
            /\ pc' = pc /\ raised' = raised
            /\ crawled_data' = crawled_data /\ dequeues' = dequeues]_vars

C5_InterruptedMidCrawl ==
    /\ interrupted /\ pc = "done" /\ raised = "none"
    /\ crawled_data # <<>>
    /\ Cardinality(visited_urls) > Len(crawled_data)
    /\ url_queue # <<>>

\* C6: whenever crawl() has returned, the visited set is exactly the set
\* of URLs of the log, and both have the same size.
C6_VisitedEqualsLogged ==
    pc = "done" =>
        /\ visited_urls = Range(LogUrls)
        /\ Cardinality(visited_urls) = Len(crawled_data)

\* C7: the frontier is first-in-first-out: the log lists the URLs in the
\* order in which they were first put in the queue.
C7_LogInFirstEnqueueOrder ==
    InCrawl =>
        /\ Len(crawled_data) <= Len(Unique(Urls(enqueued), {}))
        /\ LogUrls = SubSeq(Unique(Urls(enqueued), {}), 1, Len(crawled_data))

C7_SeedThenItsLinksInOrder ==
    /\ pc = "done" /\ ~interrupted
    /\ config.max_depth = 1
    /\ Len(crawled_data) = 3
    /\ crawled_data[1].url = config.seed_url
    /\ crawled_data[1].links = <<crawled_data[2].url, crawled_data[3].url>>
    /\ crawled_data[2].links # <<>>
    /\ url_queue = <<>>

InvalidArguments(c) ==
    \/ c.seed_url = EmptyString
    \/ c.seed_url.scheme \notin {"http", "https"}
    \/ c.max_depth < 0
    \/ c.max_pages <= 0
    \/ c.delay < 0

\* C8: a constructor call with an empty or non-http(s) seed, max_depth < 0,
\* max_pages <= 0 or delay < 0 raises ConfigurationError before the queue,
\* the visited set and the log exist.
C8_InvalidArgumentsRaiseConfigurationError ==
    (pc # "new" /\ InvalidArguments(config)) =>
        /\ pc = "raised"
        /\ raised = "ConfigurationError"
        /\ attrs \cap {"url_queue", "visited_urls", "crawled_data"} = {}

\* C9: a constructor call with an unknown delay_strategy raises
\* ConfigurationError.
C9_UnknownStrategyRaisesConfigurationError ==
    (pc # "new" /\ config.delay_strategy \notin valid_strategies) =>
        pc = "raised" /\ raised = "ConfigurationError"

DisallowedByRobots(url) ==
    /\ config.respect_robots_txt
    /\ ~can_crawl(RobotsTxtParser(SiteRobotsTxt, DefaultUserAgent), Path(url))

\* C10: with respect_robots_txt on, a URL whose path starts with a
\* Disallow prefix that applies to the crawler gets the PageResult
\* "Blocked by robots.txt" and no GET; any other URL is not blocked.
C10_DisallowedPathIsBlocked ==
    \A i \in 1..Len(crawled_data) :
        IF DisallowedByRobots(crawled_data[i].url)
        THEN /\ crawled_data[i].error = "Blocked by robots.txt"
             /\ crawled_data[i].url \notin Range(get_log)
        ELSE crawled_data[i].error # "Blocked by robots.txt"

---------------------------------------------------------------------------
(* Properties of the ProxyRotator.                                         *)

PoolKeys == {proxy_key(proxy_rotator.proxies[i]) : i \in 1..Len(proxy_rotator.proxies)}

\* C11: after any sequence of mark_failed and get_next calls on a rotator
\* with a non-empty pool (every member marked failed included), get_next
\* returns a member of the pool, never None; it returns None only when the
\* pool is empty.
C11_GetNextNeverStarves ==
    rotator_call.op = "get_next" =>
        /\ proxy_rotator.proxies # <<>> =>
               /\ rotator_call.proxy # NoProxy
               /\ rotator_call.proxy \in Range(proxy_rotator.proxies)
        /\ rotator_call.proxy = NoProxy => proxy_rotator.proxies = <<>>

\* C11 witness: both proxies of a two-member pool were failed and get_next
\* cleared the failed set and returned a member.
C11_RecoveredAfterAllFailed ==
    /\ Len(proxy_rotator.proxies) = 2
    /\ rotator_call.op = "get_next"
    /\ rotator_call.cleared
    /\ rotator_call.proxy \in Range(proxy_rotator.proxies)
    /\ proxy_rotator.failed = {}

\* C12: a get_next call made while some pool member is not failed returns
\* a proxy whose key is not in the failed set and leaves the failed set as
\* it is; the failed set loses members only in a get_next call that found
\* every pool member failed.
C12_FailedProxySkippedUntilReset ==
    [][ /\ (rotator_call'.op = "get_next" /\ PoolKeys \ proxy_rotator.failed # {}) =>
              /\ proxy_key(rotator_call'.proxy) \notin proxy_rotator.failed
              /\ rotator_call'.proxy \in Range(proxy_rotator.proxies)
              /\ proxy_rotator'.failed = proxy_rotator.failed
        /\ ~(proxy_rotator.failed \subseteq proxy_rotator'.failed) =>
              /\ rotator_call'.op = "get_next"
              /\ proxy_rotator.proxies # <<>>
              /\ PoolKeys \subseteq proxy_rotator.failed ]_vars

\* C12 witness: with two of three proxies failed, get_next has returned
\* the third without clearing anything.
C12_SkippedTheFailedOnes ==
    /\ Len(proxy_rotator.proxies) = 3
    /\ Cardinality(PoolKeys \cap proxy_rotator.failed) = 2
    /\ rotator_call.op = "get_next"
    /\ ~rotator_call.cleared
    /\ proxy_key(rotator_call.proxy) \notin proxy_rotator.failed

---------------------------------------------------------------------------
(* Properties of the DelayManager.                                         *)

IsWaitStep == delay_manager'.request_count = delay_manager.request_count + 1

\* C13: under the fixed strategy with base delay B, the dispatch timestamp
\* a wait call records is at least B later than the one recorded by the
\* call before it, and the call sleeps exactly max(0, B - time elapsed
\* since the previous dispatch), never a negative amount.
C13_FixedDelaySpacing ==
    [][ (delay_manager.strategy = "fixed" /\ IsWaitStep) =>
            /\ delay_manager'.last_request_time
                   >= delay_manager.last_request_time + delay_manager.base_delay
            /\ wait_call'.time_since_last >= 0
            /\ wait_call'.slept >= 0
            /\ wait_call'.slept =
                   (IF delay_manager.base_delay > wait_call'.time_since_last
                    THEN delay_manager.base_delay - wait_call'.time_since_last
                    ELSE 0) ]_vars

\* C13 witness: the second wait of a fixed-strategy manager came one second
\* after the first dispatch and slept the remaining second.
C13_SleptTheRemainder ==
    /\ delay_manager.present /\ delay_manager.strategy = "fixed"
    /\ delay_manager.request_count = 2
    /\ wait_call.time_since_last = 1
    /\ wait_call.slept = delay_manager.base_delay - 1
    /\ wait_call.slept > 0

LastTen(s) == IF Len(s) > 10 THEN SubSeq(s, Len(s) - 9, Len(s)) ELSE s

\* C14: under the adaptive strategy, wait(t) appends t to the window and
\* keeps the 10 most recent samples; the delay it computes is 2.0 * base
\* when the window mean is above 3.0 s, 1.5 * base when it is above 1.0 s,
\* else base, and base for an empty window; three samples of 4.0 s give
\* 2.0 * base.
C14_AdaptiveDelayFromWindow ==
    [][ (delay_manager.strategy = "adaptive" /\ IsWaitStep) =>
            LET window == delay_manager'.response_times
                base == delay_manager.base_delay
            IN  /\ window = LastTen(delay_manager.response_times
                                    \o wait_call'.response_time)
                /\ wait_call'.delay =
                       (IF window = <<>> THEN base
                        ELSE IF Sum(window) > 3 * Len(window) THEN 2 * base
                        ELSE IF Sum(window) > Len(window) THEN (3 * base) \div 2
                        ELSE base)
                /\ window = <<4, 4, 4>> => wait_call'.delay = 2 * base ]_vars

\* C14 witness: eleven samples of 4.0 s went in, ten are kept, and the
\* delay of the last call is twice the base delay.
C14_SlowServerDoublesDelay ==
    /\ delay_manager.present /\ delay_manager.strategy = "adaptive"
    /\ delay_manager.request_count = 11
    /\ delay_manager.response_times = [i \in 1..10 |-> 4]
    /\ wait_call.response_time = <<4>>
    /\ delay_manager.base_delay > 0
    /\ wait_call.delay = 2 * delay_manager.base_delay

---------------------------------------------------------------------------
(* Properties of the crawl, continued.                                     *)

\* base_delay = delay * 1.5 ^ k, as fractions
IsDelayTimesBackoff(value, delay, k) == value[1] * 2 ^ k = delay * 3 ^ k * value[2]

\* C15: every PageResult with status_code 429 multiplies base_delay by 1.5:
\* when crawl() returns, base_delay is its value at the start of the run
\* times 1.5 to the power of the number of PageResults with status_code
\* 429, and base_delay never decreases during the run.
C15_BackoffOncePer429 ==
    [][ /\ (InCrawl /\ pc' = "done") =>
               IsDelayTimesBackoff(base_delay', config.delay,
                                   Cardinality({i \in 1..Len(crawled_data') :
                                                   crawled_data'[i].status_code = 429}))
        /\ InCrawl => base_delay'[1] * base_delay[2] >= base_delay[1] * base_delay'[2] ]_vars

\* C16: with same_domain_only=True every URL placed in the frontier and
\* every URL that receives a PageResult has the host (netloc) of the seed.
C16_SameDomainOnly ==
    (InCrawl /\ config.same_domain_only) =>
        /\ \A i \in 1..Len(enqueued) : enqueued[i][1].netloc = config.seed_url.netloc
        /\ \A i \in 1..Len(url_queue) : url_queue[i][1].netloc = config.seed_url.netloc
        /\ \A i \in 1..Len(crawled_data) :
               crawled_data[i].url.netloc = config.seed_url.netloc

\* C16 witness: a page whose anchors name another host (and a PDF, a login
\* page and a fragment) yielded only its same-host link, which was then
\* fetched.
C16_ForeignLinkDropped ==
    /\ pc = "done" /\ config.same_domain_only
    /\ \E i \in 1..Len(crawled_data) :
          /\ crawled_data[i].links = <<Url("https", "h", <<"/", "b", "?", "q">>)>>
          /\ \E j \in (i + 1)..Len(crawled_data) :
                crawled_data[j].url = crawled_data[i].links[1]

---------------------------------------------------------------------------
(* Properties of the URLValidator.                                         *)

PathIsBlocked(path) ==
    \/ path # <<>> /\ Lower(Last(path)) \in SKIP_EXTENSIONS
    \/ \E pat \in skip_patterns : Contains(path, pat)
    \/ path # <<>> /\ Last(path) \in skip_suffixes

\* C17: is_valid_url(url) is true exactly when the scheme is http or https,
\* no allowlist is configured or the host is in it, and the path neither
\* ends with a blocked extension nor matches a blocked path pattern; the
\* host and the query string have no part in the pattern test.
C17_ValidityDependsOnPathOnly ==
    validator_call.fn = "is_valid_url" =>
        validator_call.valid =
            (/\ validator_call.url.scheme \in {"http", "https"}
             /\ (validator_call.allowed_domains = {}
                 \/ validator_call.url.netloc \in validator_call.allowed_domains)
             /\ ~PathIsBlocked(Path(validator_call.url)))

PathWithoutTrailingSlash(path) ==
    IF path # <<>> /\ path # <<"/">> /\ Last(path) = "/"
    THEN SubSeq(path, 1, Len(path) - 1) ELSE path

\* C18: normalize_url(url, base) is the resolved URL rebuilt as
\* scheme://host/path[?query]: no fragment, the query unchanged, and the
\* trailing slash of the path removed unless the path is exactly "/",
\* with or without a query.
C18_NormalizedForm ==
    validator_call.fn = "normalize_url" =>
        LET resolved == urljoin(validator_call.base_url, validator_call.url)
        IN  validator_call.normalized =
                Url(resolved.scheme, resolved.netloc,
                    PathWithoutTrailingSlash(Path(resolved))
                    \o QueryPart(Query(resolved)))

---------------------------------------------------------------------------
(* Properties of the crawl: sessions and retries.                          *)

\* C19: rotation replaces the handle: when the crawler moves to a new
\* session identifier the previous handle is closed and removed from the
\* session table and the new one is the only entry, so the table never
\* holds more than one open handle during a crawl.
C19_OneOpenSession ==
    [][ /\ Cardinality(sessions') <= 1
        /\ session_id' # session_id =>
               /\ session_id \notin sessions'
               /\ sessions' = {session_id'} ]_vars

\* C19 witness: the crawler is fetching with its third handle, the only
\* one in the table.
C19_RotatedTwice ==
    /\ pc = "fetch"
    /\ session_id = 2
    /\ sessions = {session_id}
    /\ Len(crawled_data) >= 2

GetCalls(url) == Cardinality({k \in 1..Len(get_log) : get_log[k] = url})

\* C20: crawl_page issues at most 3 GET attempts for one URL when a proxy
\* is in use and exactly 1 when none is, and the PageResult's retry_count
\* equals the number of failed attempts (the attempts that returned no
\* response).
C20_AttemptsAndRetryCount ==
    \A i \in 1..Len(crawled_data) :
        LET pd == crawled_data[i]
            failed_attempts == GetCalls(pd.url) - (IF pd.status_code # 0 THEN 1 ELSE 0)
        IN  pd.error # "Blocked by robots.txt" =>
                /\ pd.proxy_used # <<>> => GetCalls(pd.url) <= 3
                /\ pd.proxy_used = <<>> => GetCalls(pd.url) = 1
                /\ pd.retry_count = failed_attempts

C22_WaitOncePerPageWithResponseTime ==
    /\ ~interrupted => wait_calls = Len(crawled_data)
    /\ \A i \in 1..Len(crawled_data) :
          LET pd == crawled_data[i]
          IN  pd.status_code # 0 =>
                  /\ pd.response_time # <<>>
                  /\ wait_argument(pd) = pd.response_time

\* The step in which crawl_page returns a page and crawl() handles it.
IsPageStep == pc = "wait" /\ Len(crawled_data') = Len(crawled_data) + 1

\* C23: a page that fails, for whichever reason, is recorded in the log with
\* its error and nothing is raised; the failure adds one to the count of
\* consecutive failures and the loop goes on with the next entry (unless
\* the count has then reached the abort threshold).
C23_FailureRecordedNotRaised ==
    [][IsPageStep /\ page_data.error # NoneValue =>
          /\ crawled_data' = Append(crawled_data, page_data)
          /\ raised' = "none"
          /\ consecutive_failures' = consecutive_failures + 1
          /\ pc' = IF consecutive_failures' >= max_consecutive_failures
                   THEN "done" ELSE "loop"]_vars

\* After a page that timed out the loop went on to the next entry, which
\* failed in another way; both are in the log and counted.
C23_WentOnAfterTwoFailures ==
    /\ Len(crawled_data) = 3
    /\ crawled_data[2].error = "Request timeout"
    /\ crawled_data[3].error = "Non-HTML content"
    /\ consecutive_failures = 2
    /\ pc = "loop"
    /\ raised = "none"

\* C24: whichever way crawl() ends (frontier exhausted, page budget, abort
\* after repeated failures, interrupt, exception in the loop), every session
\* is closed and the session table is empty, and the only exception that
\* reaches the caller is CrawlerError.
C24_SessionsClosedOnEveryExit ==
    /\ pc \in {"done", "failed"} => sessions = {}
    /\ pc = "failed" => raised = "CrawlerError"
    /\ pc = "done" => raised = "none"

\* An exception left the loop while a session was open: CrawlerError is
\* raised and the table is empty.
C24_ClosedAfterLoopError ==
    /\ pc = "failed"
    /\ raised = "CrawlerError"
    /\ session_id > 0
    /\ Len(crawled_data) >= 1
    /\ sessions = {}

Pool == {user_agent_rotator.user_agents[i] : i \in 1..Len(user_agent_rotator.user_agents)}

\* The strings that get_next calls can still return if the list is left as
\* it is: any member in random mode; in sequential mode what the list
\* iterator has not passed yet and what the cycle has saved.
Returnable ==
    LET r == user_agent_rotator
    IN  IF r.random_rotation THEN Pool
        ELSE {r.saved[i] : i \in 1..Len(r.saved)}
             \cup (IF r.exhausted THEN {}
                   ELSE {r.user_agents[i] : i \in (r.consumed + 1)..Len(r.user_agents)})

\* C25: after any sequence of add_user_agent, remove_user_agent and get_next
\* calls, in random and in sequential mode, get_next returns a string that
\* is in the pool at the time of the call, every string in the pool can
\* still be returned, and remove_user_agent of a string that is not in the
\* pool returns False and changes nothing.
C25_GetNextFollowsThePool ==
    /\ agent_call.op = "get_next" /\ Pool # {} => agent_call.result \in Pool
    /\ Pool \subseteq Returnable
    /\ agent_call.op = "remove_user_agent"
         /\ (\A i \in 1..Len(agent_call.before) : agent_call.before[i] # agent_call.user_agent)
         => /\ agent_call.result = "False"
            /\ user_agent_rotator.user_agents = agent_call.before

\* Line i of the file is a User-agent line.
IsUserAgentLine(content, i) ==
    content[i].kind = "directive" /\ Lower(content[i].directive) = "user-agent"

\* Line i is a Disallow line with a value, and the User-agent line nearest
\* above it names "*" or, in any spelling of case, the given agent.
RuleApplies(content, user_agent, i) ==
    /\ content[i].kind = "directive"
    /\ Lower(content[i].directive) = "disallow"
    /\ content[i].value # <<>>
    /\ \E j \in 1..(i - 1) :
          /\ IsUserAgentLine(content, j)
          /\ \A k \in (j + 1)..(i - 1) : ~IsUserAgentLine(content, k)
          /\ LowerAll(content[j].value) \in {<<"*">>, LowerAll(user_agent)}

\* C28: for any robots.txt, can_crawl(path) is false exactly when the path
\* starts with the value of a non-empty Disallow line of a block whose
\* User-agent is "*" or is the configured agent up to case; Disallow lines
\* of other agents' blocks, or above every User-agent line, block nothing.
C28_BlockedIffApplicableDisallowPrefix ==
    robots_call.fn = "can_crawl" =>
        (~robots_call.allowed <=>
            \E i \in 1..Len(robots_call.content) :
                /\ RuleApplies(robots_call.content, robots_call.user_agent, i)
                /\ IsPrefix(robots_call.content[i].value, robots_call.url_path))

\* A rule of the block "User-Agent: WebBot" blocks "/ab" for the agent
\* configured as "WEBBOT", though another agent's block follows.
C28_BlockedByOwnBlockInOtherCase ==
    /\ robots_call.fn = "can_crawl"
    /\ robots_call.user_agent = <<"WEBBOT">>
    /\ robots_call.content = <<Line("User-Agent", <<"WebBot">>),
                               Line("Disallow", <<"/", "a">>),
                               Line("user-agent", <<"other">>)>>
    /\ robots_call.url_path = <<"/", "a", "b">>
    /\ ~robots_call.allowed

\* C26: a PageResult has no error exactly when a response arrived with
\* status 200 and a content type containing text/html; only then are title
\* and links filled in, so a PageResult with an error has no links; any
\* other status or content type is recorded as an error string, and
\* nothing is raised.
C26_ErrorUnsetIffHtml200 ==
    /\ \A i \in 1..Len(crawled_data) :
          LET pd == crawled_data[i]
              html200 == /\ pd.status_code = 200
                         /\ pd.content_type \in {"text/html", "text/html; charset=utf-8"}
          IN  /\ pd.error = NoneValue <=> html200
              /\ ~html200 => pd.links = <<>> /\ pd.title = ""
              /\ pd.status_code \notin {0, 200} =>
                    pd.error = "HTTP " \o ToString(pd.status_code)
              /\ pd.status_code = 200 /\ ~html200 => pd.error = "Non-HTML content"
    /\ pc = "loop" => raised = "none"

\* The log holds an HTML page with title and links, a 200 page that is not
\* HTML and a 404 page.
C26_HtmlPdfAnd404Logged ==
    /\ Len(crawled_data) = 3
    /\ crawled_data[1].error = NoneValue
    /\ crawled_data[1].title # "" /\ crawled_data[1].links # <<>>
    /\ crawled_data[2].status_code = 200 /\ crawled_data[2].error = "Non-HTML content"
    /\ crawled_data[3].status_code = 404 /\ crawled_data[3].error = "HTTP 404"
    /\ pc = "loop"

\* The place of a page in the log (0 if it is not there).
LogPlace(page) ==
    IF \E i \in 1..Len(crawled_data) : crawled_data[i] = page
    THEN CHOOSE i \in 1..Len(crawled_data) : crawled_data[i] = page
    ELSE 0

\* The pages of sub are pages of the log, in the order of the log.
InLogOrder(sub) ==
    /\ \A a \in 1..Len(sub) : LogPlace(sub[a]) > 0
    /\ \A a \in 1..(Len(sub) - 1) : LogPlace(sub[a]) < LogPlace(sub[a + 1])

\* C27: get_failed_urls() and get_successful_urls() split the log in two (a
\* page is failed exactly when its error is set), each in log order, and
\* get_summary() reports total_pages_crawled = len(log) =
\* successful_pages + failed_pages and total_links_found = the sum of the
\* lengths of the pages' links lists.
C27_ReportsPartitionTheLog ==
    LET failed == get_failed_urls(crawled_data)
        successful == get_successful_urls(crawled_data)
        summary == get_summary(crawled_data, visited_urls)
    IN  /\ \A i \in 1..Len(crawled_data) :
              LET pd == crawled_data[i]
              IN  /\ pd.error # NoneValue <=> pd \in Range(failed)
                  /\ pd.error = NoneValue <=> pd \in Range(successful)
        /\ Len(failed) + Len(successful) = Len(crawled_data)
        /\ InLogOrder(failed) /\ InLogOrder(successful)
        /\ summary.total_pages_crawled = Len(crawled_data)
        /\ summary.successful_pages = Len(successful)
        /\ summary.failed_pages = Len(failed)
        /\ summary.total_links_found =
              Cardinality({<<i, j>> \in (1..Len(crawled_data)) \X (1..HubLinks) :
                              j <= Len(crawled_data[i].links)})

\* A finished run with two successful pages around a failed one and links
\* found.
C27_MixedLogReported ==
    /\ pc = "done"
    /\ Len(crawled_data) = 3
    /\ Len(get_failed_urls(crawled_data)) = 1
    /\ get_successful_urls(crawled_data) = <<crawled_data[1], crawled_data[3]>>
    /\ get_summary(crawled_data, visited_urls).total_links_found >= 2

\* The entries a step appends to the frontier.
Appended == SubSeq(url_queue', Len(url_queue) + 1, Len(url_queue'))

\* C29: links are appended to the frontier only when the page succeeded and
\* its depth is below max_depth; every appended entry has the parent's
\* depth plus one and a URL that is not in the visited set at that moment;
\* a failed page appends nothing; with max_depth = 0 nothing but the seed
\* is ever fetched.
C29_EnqueueOnlyBelowMaxDepth ==
    [][/\ IsPageStep =>
            /\ pc' = "loop" => url_queue' = url_queue \o Appended
            /\ Appended # <<>> =>
                  /\ page_data.error = NoneValue
                  /\ current[2] < config.max_depth
            /\ \A k \in 1..Len(Appended) :
                  /\ Appended[k][2] = current[2] + 1
                  /\ Appended[k][1] \notin visited_urls
                  /\ Appended[k][1] \in Range(page_data.links)
       /\ ~IsPageStep /\ pc # "new" => Len(url_queue') <= Len(url_queue)
       /\ config'.max_depth = 0 =>
            \A k \in 1..Len(get_log') : get_log'[k] = config'.seed_url]_vars

\* A page at depth 1 has put its links in the frontier at depth 2, after a
\* failed page that put in none.
C29_DepthTwoEntryQueued ==
    /\ pc = "loop"
    /\ Len(crawled_data) = 3
    /\ crawled_data[2].error # NoneValue
    /\ depth_log[3] = 1
    /\ \E k \in 1..Len(url_queue) :
          url_queue[k][2] = 2 /\ url_queue[k][1] \in Range(crawled_data[3].links)

\* C30: crawl() ends for one of four reasons only: the frontier is empty,
\* the pages processed in this call have reached max_pages, the tenth
\* consecutive failure, or an interrupt; none of them holds when an entry
\* is dequeued, and crawl() does not return while all four are absent and
\* no exception left the loop.
C30_StopsOnlyForFourReasons ==
    [][/\ pc' = "done" /\ pc # "done" =>
            \/ url_queue' = <<>>
            \/ pages_crawled' >= config.max_pages
            \/ consecutive_failures' >= max_consecutive_failures
            \/ interrupted'
       /\ pc' = "failed" => raised' = "CrawlerError"
       /\ dequeues' > dequeues =>
            /\ url_queue # <<>>
            /\ pages_crawled < config.max_pages
            /\ consecutive_failures < max_consecutive_failures
            /\ ~interrupted]_vars

\* The run ended on the page budget with entries left in the frontier.
C30_StoppedOnBudgetWithFrontierLeft ==
    /\ pc = "done"
    /\ ~interrupted
    /\ url_queue # <<>>
    /\ pages_crawled = config.max_pages
    /\ consecutive_failures < max_consecutive_failures

---------------------------------------------------------------------------
(* Properties of the proxy failover, the session rotation and the summary. *)

\* The session.get calls k and k + 1 are a failed attempt and its retry:
\* both belong to the same crawl_page call.
IsRetry(k) == k + 1 <= Len(get_log) /\ get_log[k] = get_log[k + 1]

FetchesOn(id) == Cardinality({k \in 1..Len(session_log) : session_log[k] = id})

SuccessfulDepths ==
    {depth_log[i] : i \in {k \in 1..Len(crawled_data) : no_error(crawled_data[k])}}

\* C33: max_depth_reached of get_summary() is the greatest depth among the
\* successful PageResults (0 when there is none) and never exceeds max_depth.
C33_MaxDepthReachedIsGreatestDepth ==
    InCrawl =>
        LET reached == get_summary(crawled_data, visited_urls).max_depth_reached
        IN  /\ reached = (IF SuccessfulDepths = {} THEN 0
                          ELSE CHOOSE d \in SuccessfulDepths :
                                   \A other \in SuccessfulDepths : other <= d)
            /\ reached <= config.max_depth

---------------------------------------------------------------------------
(* Properties of the pacing of a constructed crawler.                      *)

\* C34: with the random or the adaptive strategy every target delay wait
\* computes lies between the configured min_delay and max_delay.
C34_TargetDelayWithinConfiguredBounds ==
    wait_call # NoWait /\ delay_manager.strategy \in {"random", "adaptive"} =>
        /\ min_delay_of(config) <= wait_call.delay
        /\ wait_call.delay <= max_delay_of(config)

---------------------------------------------------------------------------
(* Properties of the constructor with every kind of configuration.         *)

ValidConfiguration(c) ==
    ~InvalidArguments(c) /\ c.delay_strategy \in valid_strategies

\* C35: the constructor raises only ConfigurationError and only for invalid
\* parameters; for every valid configuration, proxy rotation with a
\* non-empty proxy list included, it completes with the frontier
\* [(seed, 0)], an empty visited set, an empty log and, when proxies were
\* given, a proxy rotator over them.
C35_ConstructorCompletesOrConfigurationError ==
    /\ pc = "raised" => raised = "ConfigurationError" /\ ~ValidConfiguration(config)
    /\ (pc # "new" /\ ValidConfiguration(config)) => pc # "raised"
    /\ pc = "ready" =>
           /\ url_queue = <<<<config.seed_url, 0>>>>
           /\ visited_urls = {} /\ crawled_data = <<>>
           /\ proxy_rotation_enabled(config) =>
                  /\ proxy_rotator.present
                  /\ PoolKeys \subseteq {proxy_key(Proxy(config.proxy_list[i])) :
                                          i \in 1..Len(config.proxy_list)}

---------------------------------------------------------------------------
(* Properties of the frontier: depths, order, coverage.                    *)

Constructed == pc \in {"ready", "loop", "fetch", "wait", "done", "failed"}

\* C36: every entry of the frontier has a depth between 0 and max_depth, so
\* the test "depth > max_depth" after popleft() never discards an entry.
C36_FrontierDepthsWithinLimit ==
    Constructed =>
        /\ \A i \in 1..Len(url_queue) :
               0 <= url_queue[i][2] /\ url_queue[i][2] <= config.max_depth
        /\ current # NoCurrent => current[2] <= config.max_depth

\* An entry was discarded after popleft() while entries of the deepest
\* level wait in the frontier.
C36_DeepestLevelQueuedAndEntrySkipped ==
    /\ pc = "loop"
    /\ config.max_depth = MaxDepthBound
    /\ dequeues > Len(crawled_data)
    /\ \E i \in 1..Len(url_queue) : url_queue[i][2] = config.max_depth

\* The depths of a sequence of entries never decrease from head to tail.
NonDecreasing(depths) ==
    \A i \in 1..Len(depths) - 1 : depths[i] <= depths[i + 1]

QueueDepths == [i \in 1..Len(url_queue) |-> url_queue[i][2]]

\* C37: breadth-first layering.  The depths of the frontier never decrease
\* from head to tail and the tail is at most one level below the head; the
\* depths of the fetches never decrease along the log; and every URL is
\* fetched at the smallest depth at which it was ever put in the frontier.
C37_BreadthFirstLayering ==
    /\ NonDecreasing(QueueDepths)
    /\ url_queue # <<>> => Last(QueueDepths) <= Head(QueueDepths) + 1
    /\ NonDecreasing(depth_log)
    /\ \A i \in 1..Len(crawled_data) :
           \A j \in 1..Len(enqueued) :
               enqueued[j][1] = crawled_data[i].url => depth_log[i] <= enqueued[j][2]

\* A URL was put in the frontier at two depths and fetched at the smaller
\* one, while its deeper entry still waits in the frontier.
C37_QueuedTwiceFetchedAtSmallerDepth ==
    /\ url_queue # <<>> /\ Head(url_queue)[1] \in visited_urls
    /\ \E i \in 1..Len(crawled_data) :
           \E j, k \in 1..Len(enqueued) :
               /\ enqueued[j][1] = crawled_data[i].url
               /\ enqueued[k][1] = crawled_data[i].url
               /\ enqueued[j][2] < enqueued[k][2]
               /\ depth_log[i] = enqueued[j][2]

\* The links lists of the PageResults without error for the URLs of a set.
LinksOf(urls) ==
    UNION {Range(crawled_data[i].links) :
              i \in {k \in 1..Len(crawled_data) :
                         no_error(crawled_data[k]) /\ crawled_data[k].url \in urls}}

\* The URLs reachable from the seed by at most n links.
RECURSIVE ReachableWithin(_)
ReachableWithin(n) ==
    IF n = 0 THEN {config.seed_url}
    ELSE ReachableWithin(n - 1) \cup LinksOf(ReachableWithin(n - 1))

\* crawl() returned because the frontier was empty: the page budget was
\* not reached, the failure threshold did not abort, nothing interrupted.
FrontierExhausted ==
    /\ pc = "done" /\ url_queue = <<>>
    /\ pages_crawled < config.max_pages
    /\ consecutive_failures < max_consecutive_failures
    /\ ~interrupted

\* C38: when crawl() ends because the frontier is empty, every URL that is
\* reachable from the seed by at most max_depth links, the links being
\* those of the successfully fetched pages, has a PageResult.
C38_ExhaustedFrontierCoversReachable ==
    FrontierExhausted => ReachableWithin(config.max_depth) \subseteq Range(LogUrls)

\* The frontier ran empty below the depth limit after three reachable pages
\* were fetched, one of which had been queued a second time.
C38_ExhaustedWithThreeReachable ==
    /\ FrontierExhausted
    /\ config.max_depth = MaxDepthBound
    /\ Cardinality(ReachableWithin(config.max_depth)) >= 3
    /\ dequeues > Len(crawled_data)

---------------------------------------------------------------------------
(* Termination of crawl().                                                 *)

\* What one pass of the while loop does to the frontier and the page count:
\* popleft() removes one entry and adds none; only the handling of a
\* fetched page adds entries, and it counts the page within the budget.
IterationProgress ==
    /\ dequeues' = dequeues + 1 =>
           /\ Len(url_queue') = Len(url_queue) - 1
           /\ pages_crawled' = pages_crawled
    /\ (pc \in {"loop", "fetch", "wait"} /\ Len(url_queue') > Len(url_queue)) => IsPageStep
    /\ IsPageStep =>
           /\ pages_crawled' = pages_crawled + 1
           /\ pages_crawled' <= config.max_pages

Running == pc \in {"loop", "fetch", "wait"}

Returned == pc \in {"done", "failed"}

\* C39: crawl() terminates for every link graph, provided each fetch and
\* each wait returns: every pass of the loop either removes one frontier
\* entry without adding any or counts one more page, of which there are at
\* most max_pages.
C39_CrawlTerminates ==
    [][IterationProgress]_vars /\ (Running ~> Returned)

\* crawl() returned after a pass that discarded an entry and passes that
\* fetched pages linking back to pages already fetched.
C39_ReturnedAfterSkipAndCycle ==
    /\ pc = "done" /\ ~interrupted
    /\ dequeues > Len(crawled_data)
    /\ \E i, j \in 1..Len(crawled_data) :
           i < j /\ crawled_data[i].url \in Range(crawled_data[j].links)

---------------------------------------------------------------------------
(* Properties of repeated crawl() calls.                                   *)

\* A step that starts a crawl() call.
IsCallStart == Len(calls') = Len(calls) + 1

\* C40: the frontier, the visited set and the log stay on the instance
\* while the counters are per call.  Each crawl() call appends at most
\* max_pages PageResults; a further call starts from the frontier, the
\* visited set and the log the previous one left; no visited URL is fetched
\* again; and earlier PageResults are never removed or rewritten.
C40_CrawlResumesFromKeptState ==
    [][/\ IsCallStart =>
              /\ url_queue' = url_queue /\ visited_urls' = visited_urls
              /\ crawled_data' = crawled_data
              /\ pages_crawled' = 0 /\ consecutive_failures' = 0
       /\ calls' # <<>> => Len(crawled_data') - Last(calls') <= config'.max_pages
       /\ (current' # NoCurrent /\ current' # current) =>
              current'[1] \notin visited_urls
       /\ Len(get_log') > Len(get_log) => Last(get_log') \notin Range(get_log)
       /\ Len(crawled_data') >= Len(crawled_data)
       /\ SubSeq(crawled_data', 1, Len(crawled_data)) = crawled_data]_vars

\* The first call stopped on its page budget with entries left in the
\* frontier, and the second call has fetched a page from them.
C40_SecondCallFetchedFromFrontier ==
    /\ Len(calls) = MaxCalls
    /\ calls[MaxCalls] = config.max_pages
    /\ Len(crawled_data) > calls[MaxCalls]
    /\ pc = "done"

====
